---- MODULE Spec2Model ----
(***************************************************************************)
(* Model of oracle-sql-runner's two execution engines.                     *)
(*                                                                         *)
(*   core : internal/core Executor.executeParallel / executeTask, one      *)
(*          goroutine per task behind a counting semaphore, results in a   *)
(*          models.Result.                                                 *)
(*   exec : executor SQLExecutor.executeOneFile / worker /                 *)
(*          executeStatement, a fixed set of workers reading a statements  *)
(*          channel, each statement run on a lease of ConnectionPool.      *)
(*                                                                         *)
(* The variable engine says which of the two a behaviour runs.             *)
(*                                                                         *)
(* Each engine has its own segmenter: core.ParseFile reads the script line *)
(* by line, executor.SQLParser.NextStatement character by character. Both  *)
(* are modelled on the same file content.                                  *)
(***************************************************************************)
EXTENDS Integers, Sequences, FiniteSets, TLC

\* ------------------------------------------------------------------ bounds

\* Concurrent executeParallel calls on one Executor.
NumCalls == 2
\* Tasks over all the concurrent calls of one behaviour.
MaxTotalTasks == 2
\* Statements in the file that SQLExecutor.ExecuteFile runs.
MaxStmts == 2
\* ParallelDegree ranges over 1..MaxDegree.
MaxDegree == 2

\* Lines in a script file.
MaxLines == 3

Calls == 1..NumCalls
TaskIds == 1..MaxTotalTasks

\* ------------------------------------------------------- program constants

DefaultMaxRetries == 3
DefaultMaxConcurrent == 5

VARIABLES
    engine,     \* "core" or "exec": the engine this behaviour runs
    config,     \* core: e.config as Load leaves it (MaxRetries, MaxConcurrent)
    call,       \* core: per executeParallel call, its locals and position
    task,       \* core: per call and task, the goroutine running it
    metrics,    \* core: e.metrics, shared by all calls
    execConfig, \* exec: ParallelDegree, BatchSize, MaxRetries, maxConns
    pool,       \* exec: the ConnectionPool (active) and its leases
    ctxDone,    \* exec: e.ctx is done (its deadline passed, or cancel ran)
    statements, \* exec: the statements channel and the reader feeding it
    worker,     \* exec: per worker goroutine, its position and locals
    stmt,       \* exec: per statement of the file, how far it has come
    results,    \* exec: the e.results channel
    errors,     \* exec: the e.errors channel
    main,       \* exec: NewSQLExecutor / ExecuteFile, position and return
    file,       \* the script file's content, a sequence of characters
    seg,        \* the segmenter run on file: ParseFile, or the SQLParser
    retry,      \* one statement's retry loop: executeTask / executeStatement
    meter,      \* utils: a Metrics object shared by goroutines
    adder,      \* utils: per goroutine, its position in Metrics.AddQuery
    crypt,      \* a password and what encryption has made of it
    run,        \* exec: ExecuteFile over the parts of a file, its channels
    split,      \* exec: ExecuteFile over the files SplitSQLFile returns
    progress    \* a Progress and the goroutines calling its methods

coreVars == <<config, call, task, metrics>>
execVars ==
    <<execConfig, pool, ctxDone, statements, worker, stmt, results, errors,
      main>>
parseVars == <<file, seg>>
utilVars == <<meter, adder, crypt, run, split, progress>>
vars == <<engine, coreVars, execVars, parseVars, retry, utilVars>>

\* ------------------------------------------------------------ core: config

\* Load's defaulting of one integer field: 0 means "not set".
Defaulted(raw, dflt) == IF raw = 0 THEN dflt ELSE raw

\* The Config that Load hands to NewExecutor for the raw file values.
Load(rawRetries, rawConcurrent) ==
    [MaxRetries    |-> Defaulted(rawRetries, DefaultMaxRetries),
     MaxConcurrent |-> Defaulted(rawConcurrent, DefaultMaxConcurrent)]

\* Raw max_retries / max_concurrent values of the configuration file.
RawRetries == {-1, 0, 1}
RawConcurrent == {0, 1, 2}

\* ------------------------------------------------------------ core: result

\* models.NewResult: zero counters, no errors.
NewResult == [Success |-> 0, Failed |-> 0, Errors |-> <<>>]

\* Result.AddError, a critical section of r.mu: Failed++ and one SQLError
\* appended (the task and the final error's message).
AddError(r, t, err) ==
    [r EXCEPT !.Failed = @ + 1,
              !.Errors = Append(@, [task |-> t, msg |-> err])]

\* Result.AddSuccess, a critical section of r.mu: Success++.
AddSuccess(r) == [r EXCEPT !.Success = @ + 1]

\* Metrics.AddQuery: atomic adds to QueryCount and to one of SuccessCount /
\* FailureCount.
AddQuery(m, success) ==
    [m EXCEPT !.QueryCount = @ + 1,
              !.SuccessCount = IF success THEN @ + 1 ELSE @,
              !.FailureCount = IF success THEN @ ELSE @ + 1]

\* isRetryableError on the three kinds of outcome an attempt can have.
isRetryableError(err) == err = "retryable"

\* ------------------------------------------------------- core: executeTask

\* Where executeTask goes when it evaluates the loop condition with counter
\* i: into the sleep before a retry, into the attempt, or out of the loop
\* (return err).
LoopHead(i) ==
    IF i < config.MaxRetries
    THEN IF i > 0 THEN "sleep" ELSE "attempt"
    ELSE "lock"

\* A goroutine that has not been started.  attempts and first record how
\* many passes of executeTask's loop body ran and what the first returned.
NoTask ==
    [pc |-> "none", i |-> 0, err |-> "nil", attempts |-> 0, first |-> "nil"]

\* go func(t): the goroutine enters executeTask with i = 0, err = nil.
Spawned == [NoTask EXCEPT !.pc = LoopHead(0)]

\* The outcomes the backend can give one attempt.
Outcomes == {"nil", "retryable", "terminal"}

\* time.Sleep(time.Second * i) before attempt i+1.
Sleep(c, t) ==
    /\ engine = "core"
    /\ task[c][t].pc = "sleep"
    /\ task' = [task EXCEPT ![c][t].pc = "attempt"]
    /\ UNCHANGED <<engine, utilVars, retry, parseVars, execVars, config, call, metrics>>

\* One pass of the loop body: executeQuery / executePLSQL / executeSQL
\* returns out; nil or a non-retryable error returns (the local i dies with
\* the call), a retryable one goes on to i+1.
Attempt(c, t) ==
    /\ engine = "core"
    /\ task[c][t].pc = "attempt"
    /\ \E out \in Outcomes :
         LET g == task[c][t]
             done == out = "nil" \/ ~isRetryableError(out)
         IN task' = [task EXCEPT ![c][t] =
                [g EXCEPT !.err = out,
                          !.attempts = @ + 1,
                          !.first = IF g.attempts = 0 THEN out ELSE @,
                          !.i = IF done THEN 0 ELSE @ + 1,
                          !.pc = IF done THEN "lock" ELSE LoopHead(g.i + 1)]]
    /\ UNCHANGED <<engine, utilVars, retry, parseVars, execVars, config, call, metrics>>

\* ---------------------------------------------------- core: executeParallel

\* mu.Lock() succeeds only on a free mutex.
CanLock(m) == m = 0

\* mu.Lock() in the goroutine, after executeTask returned.
LockMu(c, t) ==
    /\ engine = "core"
    /\ task[c][t].pc = "lock"
    /\ CanLock(call[c].mu)
    /\ call' = [call EXCEPT ![c].mu = t]
    /\ task' = [task EXCEPT ![c][t].pc = "record"]
    /\ UNCHANGED <<engine, utilVars, retry, parseVars, execVars, config, metrics>>

\* if err != nil { result.AddError; metrics.AddQuery(false) } else
\* { result.AddSuccess; metrics.AddQuery(true) }, then the deferred
\* mu.Unlock() and cancel().
Record(c, t) ==
    /\ engine = "core"
    /\ task[c][t].pc = "record"
    /\ call[c].mu = t
    /\ LET err == task[c][t].err
       IN /\ call' = [call EXCEPT ![c].result =
                         IF err # "nil" THEN AddError(@, t, err)
                                        ELSE AddSuccess(@),
                                  ![c].mu = 0]
          /\ metrics' = AddQuery(metrics, err = "nil")
    /\ task' = [task EXCEPT ![c][t].pc = "sem"]
    /\ UNCHANGED <<engine, utilVars, retry, parseVars, execVars, config>>

\* The deferred <-sem.
ReleaseSem(c, t) ==
    /\ engine = "core"
    /\ task[c][t].pc = "sem"
    /\ call[c].sem > 0
    /\ call' = [call EXCEPT ![c].sem = @ - 1]
    /\ task' = [task EXCEPT ![c][t].pc = "wgdone"]
    /\ UNCHANGED <<engine, utilVars, retry, parseVars, execVars, config, metrics>>

\* The deferred wg.Done().
WgDone(c, t) ==
    /\ engine = "core"
    /\ task[c][t].pc = "wgdone"
    /\ call' = [call EXCEPT ![c].wg = @ - 1]
    /\ task' = [task EXCEPT ![c][t].pc = "done"]
    /\ UNCHANGED <<engine, utilVars, retry, parseVars, execVars, config, metrics>>

\* A semaphore send that never blocks.
SemAlwaysRoom(n) == TRUE

\* sem <- struct{}{} proceeds while the channel's buffer has room.
SemHasRoom(n) == n < config.MaxConcurrent

\* One iteration of the for loop: wg.Add(1); sem <- struct{}{}; go func(task).
Dispatch(c) ==
    /\ engine = "core"
    /\ call[c].pc = "loop"
    /\ SemHasRoom(call[c].sem)
    /\ LET t == call[c].next + 1
       IN /\ call' = [call EXCEPT ![c].wg = @ + 1,
                                  ![c].sem = @ + 1,
                                  ![c].next = t,
                                  ![c].pc = IF t = call[c].ntasks
                                            THEN "wait" ELSE "loop"]
          /\ task' = [task EXCEPT ![c][t] = Spawned]
    /\ UNCHANGED <<engine, utilVars, retry, parseVars, execVars, config, metrics>>

\* A wg.Wait() that does not wait.
WaitDoneEarly(n) == TRUE

\* wg.Wait() returns once the counter is zero.
WaitDone(n) == n = 0

\* wg.Wait(); return result.
Return(c) ==
    /\ engine = "core"
    /\ call[c].pc = "wait"
    /\ WaitDone(call[c].wg)
    /\ call' = [call EXCEPT ![c].pc = "returned"]
    /\ UNCHANGED <<engine, utilVars, retry, parseVars, execVars, config, task, metrics>>

\* A call of executeParallel(tasks) with n tasks, at its first statement.
NewCall(n) ==
    [pc |-> IF n = 0 THEN "wait" ELSE "loop",
     ntasks |-> n, next |-> 0, sem |-> 0, wg |-> 0, mu |-> 0,
     result |-> NewResult]

\* The task counts of the concurrent calls: at most MaxTotalTasks in all,
\* in non-increasing order (the calls are interchangeable).
RECURSIVE SumTo(_, _)
SumTo(f, n) == IF n = 0 THEN 0 ELSE f[n] + SumTo(f, n - 1)

TaskCounts ==
    {f \in [Calls -> 0..MaxTotalTasks] :
        /\ SumTo(f, NumCalls) <= MaxTotalTasks
        /\ \A c \in Calls : c < NumCalls => f[c] >= f[c + 1]}

\* ---------------------------------------------------------- exec: the pool

Workers == 1..MaxDegree
StmtIds == 1..MaxStmts
\* A lease is named by the statement it was acquired for; 0 is the lease of
\* enableDBMSOutput.
LeaseIds == 0..MaxStmts

\* config.MaxRetries values of the database configuration.
ExecRetryValues == {0, 1}

\* MaxConnections values of the database configuration.
PoolSizes == {1, 2}

\* The configurations: more connections than workers is left out (it runs
\* like as many connections as workers), and the statements channel has
\* room for the whole file (BatchSize is 1000 in the tests).
ExecConfigs ==
    {cfg \in [ParallelDegree : 1..MaxDegree,
              maxConns : PoolSizes,
              BatchSize : {MaxStmts},
              MaxRetries : ExecRetryValues] :
        cfg.maxConns <= cfg.ParallelDegree}

\* The pool as NewConnectionPool leaves it.  acquired / released count, per
\* lease, the successful Acquire returns and the Release calls.
NewConnectionPool ==
    [active |-> 0,
     acquired |-> [l \in LeaseIds |-> 0],
     released |-> [l \in LeaseIds |-> 0]]

\* The capacity test off by one: p.active > p.maxConns.
AtCapacityOffByOne(p) == p.active > execConfig.maxConns

\* Acquire's test under p.mu: p.active >= p.maxConns.
AtCapacity(p) == p.active >= execConfig.maxConns

\* Acquire below capacity: p.active++ under p.mu.
PoolTake(p) == [p EXCEPT !.active = @ + 1]

\* An Acquire that keeps the slot when db.Conn failed.
PoolGiveBackLeak(p) == p

\* Acquire after db.Conn failed: p.active-- under p.mu.
PoolGiveBack(p) == [p EXCEPT !.active = @ - 1]

\* Acquire returning conn for lease l.
PoolLeased(p, l) == [p EXCEPT !.acquired[l] = @ + 1]

\* Release(conn): conn.Close(); p.active-- under p.mu.
PoolRelease(p, l) ==
    [p EXCEPT !.active = @ - 1, !.released[l] = @ + 1]

\* db.Conn(ctx) and the ExecContext / QueryContext calls fail on a done ctx.
ConnOutcomes == IF ctxDone THEN {"ctx"} ELSE {"nil", "conn"}
ExecOutcomes == IF ctxDone THEN {"ctx"} ELSE {"nil", "dberr"}

\* --------------------------------------------------------- exec: the result

EmptyResult == [SuccessCount |-> 0, FailureCount |-> 0, Errors |-> <<>>]

\* ExecutionResult.merge.
merge(r, other) ==
    [SuccessCount |-> r.SuccessCount + other.SuccessCount,
     FailureCount |-> r.FailureCount + other.FailureCount,
     Errors |-> r.Errors \o other.Errors]

\* for r := range e.results { result.merge(r) }
RECURSIVE MergeAll(_, _)
MergeAll(r, ch) ==
    IF ch = <<>> THEN r ELSE MergeAll(merge(r, Head(ch)), Tail(ch))

\* shouldRetry: "return true // simplified version".
shouldRetry(err) == TRUE

\* ------------------------------------------------------- exec: the workers

\* The state of a statement whose Acquire returned the error err.
NotAdmitted(err) ==
    CASE err = "pooltimeout" -> "notadmitted_pooltimeout"
      [] err = "ctx" -> "notadmitted_ctx"
      [] OTHER -> "notadmitted_conn"

IdleWorker ==
    [pc |-> "off", stmt |-> 0, retries |-> 0, attempts |-> 0, err |-> "nil",
     result |-> EmptyResult, sawRelease |-> FALSE]

\* The workers executeOneFile starts.
Started(w) == w <= execConfig.ParallelDegree

\* NewSQLExecutor returned an executor and executeOneFile started its
\* goroutines.
Running == main.pc \in {"run", "returned"}

\* for stmt := range statements: a statement is received.
Recv(w) ==
    /\ engine = "exec"
    /\ Running
    /\ worker[w].pc = "recv"
    /\ statements.buf # <<>>
    /\ LET s == Head(statements.buf)
       IN /\ statements' = [statements EXCEPT !.buf = Tail(@)]
          /\ worker' = [worker EXCEPT ![w].pc = "acquire", ![w].stmt = s]
          /\ stmt' = [stmt EXCEPT ![s] = "pending"]
    /\ UNCHANGED <<engine, utilVars, retry, parseVars, coreVars,
                   execConfig, pool, ctxDone, results,
                   errors, main>>

\* for stmt := range statements: the channel is closed and drained.
RecvClosed(w) ==
    /\ engine = "exec"
    /\ Running
    /\ worker[w].pc = "recv"
    /\ statements.buf = <<>>
    /\ statements.closed
    /\ worker' = [worker EXCEPT ![w].pc = "result"]
    /\ UNCHANGED <<engine, utilVars, retry, parseVars, coreVars,
                   execConfig, pool, ctxDone, statements,
                   stmt, results, errors, main>>

\* Acquire, first part: under p.mu, either the pool is at capacity and the
\* caller goes to wait in the select, or p.active++.
Acquire(w) ==
    /\ engine = "exec"
    /\ worker[w].pc = "acquire"
    /\ IF AtCapacity(pool)
       THEN /\ worker' = [worker EXCEPT ![w].pc = "wait",
                                        ![w].sawRelease = FALSE]
            /\ pool' = pool
       ELSE /\ worker' = [worker EXCEPT ![w].pc = "conn"]
            /\ pool' = PoolTake(pool)
    /\ UNCHANGED <<engine, utilVars, retry, parseVars, coreVars,
                   execConfig, ctxDone, statements, stmt,
                   results, errors, main>>

\* The select of a waiting Acquire, case <-timer.C: return ErrPoolTimeout.
AcquireTimeout(w) ==
    /\ engine = "exec"
    /\ worker[w].pc = "wait"
    /\ worker' = [worker EXCEPT ![w].pc = "error", ![w].err = "pooltimeout"]
    /\ stmt' = [stmt EXCEPT ![worker[w].stmt] = NotAdmitted("pooltimeout")]
    /\ UNCHANGED <<engine, utilVars, retry, parseVars, coreVars,
                   execConfig, pool, ctxDone, statements,
                   results, errors, main>>

\* The select of a waiting Acquire, case <-ctx.Done(): return ctx.Err().
AcquireCancelled(w) ==
    /\ engine = "exec"
    /\ worker[w].pc = "wait"
    /\ ctxDone
    /\ worker' = [worker EXCEPT ![w].pc = "error", ![w].err = "ctx"]
    /\ stmt' = [stmt EXCEPT ![worker[w].stmt] = NotAdmitted("ctx")]
    /\ UNCHANGED <<engine, utilVars, retry, parseVars, coreVars,
                   execConfig, pool, ctxDone, statements,
                   results, errors, main>>

\* Acquire, second part: p.db.Conn(ctx); on an error p.active-- and the
\* error is returned, otherwise the connection is.
Conn(w) ==
    /\ engine = "exec"
    /\ worker[w].pc = "conn"
    /\ \E out \in ConnOutcomes :
         LET s == worker[w].stmt
         IN IF out = "nil"
            THEN /\ pool' = PoolLeased(pool, s)
                 /\ worker' = [worker EXCEPT ![w].pc = "exec"]
                 /\ stmt' = [stmt EXCEPT ![s] = "executing"]
            ELSE /\ pool' = PoolGiveBack(pool)
                 /\ worker' = [worker EXCEPT ![w].pc = "error",
                                             ![w].err = out]
                 /\ stmt' = [stmt EXCEPT ![s] = NotAdmitted(out)]
    /\ UNCHANGED <<engine, utilVars, retry, parseVars, coreVars,
                   execConfig, ctxDone, statements,
                   results, errors, main>>

\* worker, Acquire failed: e.errors <- err; return (the deferred wg.Done).
\* The worker's result is not sent.
WorkerError(w) ==
    /\ engine = "exec"
    /\ worker[w].pc = "error"
    /\ Len(errors) < execConfig.ParallelDegree
    /\ errors' = Append(errors, [stmt |-> worker[w].stmt,
                                 msg |-> worker[w].err])
    /\ worker' = [worker EXCEPT ![w] = [IdleWorker EXCEPT !.pc = "done"]]
    /\ UNCHANGED <<engine, utilVars, retry, parseVars, coreVars,
                   execConfig, pool, ctxDone, statements,
                   stmt, results, main>>

\* worker, after executeStatement returned err for statement s:
\* FailureCount++ and the error appended, or SuccessCount++.
Counted(r, s, err) ==
    IF err # "nil"
    THEN [r EXCEPT !.FailureCount = @ + 1,
                   !.Errors = Append(@, [stmt |-> s, msg |-> err])]
    ELSE [r EXCEPT !.SuccessCount = @ + 1]

\* executeStatement's loop condition: retries <= e.config.MaxRetries.
MayRetry(retries) == retries <= execConfig.MaxRetries

\* One pass of executeStatement's loop on the worker's connection.  nil
\* returns; an error that shouldRetry refuses returns; otherwise retries++
\* and, while retries <= MaxRetries, the sleep and another pass.  When
\* executeStatement returns the worker counts the statement.
ExecAttempt(w) ==
    /\ engine = "exec"
    /\ worker[w].pc = "exec"
    /\ \E out \in ExecOutcomes :
         LET s == worker[w].stmt
             again == out # "nil" /\ shouldRetry(out)
                         /\ MayRetry(worker[w].retries + 1)
         IN IF again
            THEN /\ worker' = [worker EXCEPT ![w].pc = "sleep",
                                             ![w].retries = @ + 1,
                                             ![w].attempts = @ + 1,
                                             ![w].err = out]
                 /\ stmt' = [stmt EXCEPT ![s] = "retrying"]
            ELSE /\ worker' = [worker EXCEPT
                                  ![w].pc = "release",
                                  ![w].attempts = @ + 1,
                                  ![w].err = out,
                                  ![w].result = Counted(@, s, out)]
                 /\ stmt' = [stmt EXCEPT ![s] = IF out = "nil"
                                                THEN "succeeded"
                                                ELSE "failed"]
    /\ UNCHANGED <<engine, utilVars, retry, parseVars, coreVars,
                   execConfig, pool, ctxDone, statements,
                   results, errors, main>>

\* time.Sleep(e.execConfig.RetryInterval), on the held connection.
ExecSleep(w) ==
    /\ engine = "exec"
    /\ worker[w].pc = "sleep"
    /\ worker' = [worker EXCEPT ![w].pc = "exec"]
    /\ stmt' = [stmt EXCEPT ![worker[w].stmt] = "executing"]
    /\ UNCHANGED <<engine, utilVars, retry, parseVars, coreVars,
                   execConfig, pool, ctxDone, statements,
                   results, errors, main>>

\* e.pool.Release(conn), and the loop goes on to the next statement (the
\* locals of executeStatement are gone); every Acquire waiting in its select
\* has now seen a release.
Release(w) ==
    /\ engine = "exec"
    /\ worker[w].pc = "release"
    /\ pool' = PoolRelease(pool, worker[w].stmt)
    /\ worker' = [v \in Workers |->
                    IF v = w
                    THEN [worker[v] EXCEPT !.pc = "recv", !.stmt = 0,
                                           !.retries = 0, !.attempts = 0,
                                           !.err = "nil"]
                    ELSE IF worker[v].pc = "wait"
                    THEN [worker[v] EXCEPT !.sawRelease = TRUE]
                    ELSE worker[v]]
    /\ UNCHANGED <<engine, utilVars, retry, parseVars, coreVars,
                   execConfig, ctxDone, statements, stmt,
                   results, errors, main>>

\* e.results <- result; return (the deferred wg.Done).
SendResult(w) ==
    /\ engine = "exec"
    /\ worker[w].pc = "result"
    /\ Len(results) < execConfig.ParallelDegree
    /\ results' = Append(results, worker[w].result)
    /\ worker' = [worker EXCEPT ![w] = [IdleWorker EXCEPT !.pc = "done"]]
    /\ UNCHANGED <<engine, utilVars, retry, parseVars, coreVars,
                   execConfig, pool, ctxDone, statements,
                   stmt, errors, main>>

\* ----------------------------------------------- exec: reader, ctx and main

\* A statement the reader has not produced yet.
NewStmt == "unread"

\* The reader goroutine: NextStatement returned the next statement and
\* statements <- stmt found room in the channel's buffer.
ReaderSend ==
    /\ engine = "exec"
    /\ Running
    /\ ~statements.closed
    /\ statements.next <= statements.total
    /\ Len(statements.buf) < execConfig.BatchSize
    /\ statements' = [statements EXCEPT !.buf = Append(@, statements.next),
                                        !.next = @ + 1]
    /\ stmt' = [stmt EXCEPT ![statements.next] = "queued"]
    /\ UNCHANGED <<engine, utilVars, retry, parseVars, coreVars,
                   execConfig, pool, ctxDone, worker,
                   results, errors, main>>

\* The reader goroutine: NextStatement returned io.EOF; the deferred
\* close(statements).
ReaderClose ==
    /\ engine = "exec"
    /\ Running
    /\ ~statements.closed
    /\ statements.next > statements.total
    /\ statements' = [statements EXCEPT !.closed = TRUE]
    /\ UNCHANGED <<engine, utilVars, retry, parseVars, coreVars,
                   execConfig, pool, ctxDone, worker, stmt,
                   results, errors, main>>

\* e.ctx's deadline (dbConfig.Timeout, counted from NewSQLExecutor) passes.
CtxExpire ==
    /\ engine = "exec"
    /\ main.pc \notin {"failed", "returned"}
    /\ ~ctxDone
    /\ ctxDone' = TRUE
    /\ UNCHANGED <<engine, utilVars, retry, parseVars, coreVars,
                   execConfig, pool, statements, worker,
                   stmt, results, errors, main>>

\* executeOneFile's "for i < ParallelDegree { e.wg.Add(1); go e.worker }".
StartWorkers ==
    [w \in Workers |->
        IF Started(w) THEN [IdleWorker EXCEPT !.pc = "recv"] ELSE IdleWorker]

\* NewSQLExecutor: with EnableDBMSOut it goes through enableDBMSOutput,
\* without it the executor is returned and ExecuteFile starts the file.
NewSQLExecutor ==
    /\ engine = "exec"
    /\ main.pc = "new"
    /\ \E EnableDBMSOut \in BOOLEAN :
         IF EnableDBMSOut
         THEN /\ main' = [main EXCEPT !.pc = "enable"]
              /\ worker' = worker
         ELSE /\ main' = [main EXCEPT !.pc = "run"]
              /\ worker' = StartWorkers
    /\ UNCHANGED <<engine, utilVars, retry, parseVars, coreVars,
                   execConfig, pool, ctxDone, statements,
                   stmt, results, errors>>

\* enableDBMSOutput: e.pool.Acquire(e.ctx) on the unused pool, up to
\* p.active++.
EnableAcquire ==
    /\ engine = "exec"
    /\ main.pc = "enable"
    /\ ~AtCapacity(pool)
    /\ pool' = PoolTake(pool)
    /\ main' = [main EXCEPT !.pc = "enable_conn"]
    /\ UNCHANGED <<engine, utilVars, retry, parseVars, coreVars,
                   execConfig, ctxDone, statements, worker,
                   stmt, results, errors>>

\* enableDBMSOutput: the rest of Acquire; an error is returned by
\* enableDBMSOutput and by NewSQLExecutor.
EnableConn ==
    /\ engine = "exec"
    /\ main.pc = "enable_conn"
    /\ \E out \in ConnOutcomes :
         IF out = "nil"
         THEN /\ pool' = PoolLeased(pool, 0)
              /\ main' = [main EXCEPT !.pc = "enable_exec"]
         ELSE /\ pool' = PoolGiveBack(pool)
              /\ main' = [main EXCEPT !.pc = "failed", !.err = out]
    /\ UNCHANGED <<engine, utilVars, retry, parseVars, coreVars,
                   execConfig, ctxDone, statements, worker,
                   stmt, results, errors>>

\* enableDBMSOutput: conn.ExecContext(...) and the deferred
\* e.pool.Release(conn); NewSQLExecutor returns the error, or the executor.
EnableExec ==
    /\ engine = "exec"
    /\ main.pc = "enable_exec"
    /\ pool' = PoolRelease(pool, 0)
    /\ \E out \in ExecOutcomes \ {"retryable"} :
         IF out = "nil"
         THEN /\ main' = [main EXCEPT !.pc = "run"]
              /\ worker' = StartWorkers
         ELSE /\ main' = [main EXCEPT !.pc = "failed", !.err = out]
              /\ worker' = worker
    /\ UNCHANGED <<engine, utilVars, retry, parseVars, coreVars,
                   execConfig, ctxDone, statements, stmt,
                   results, errors>>

\* e.wg.Wait() returns once every started worker has returned.
AllWorkersDone == \A w \in Workers : Started(w) => worker[w].pc = "done"

\* executeOneFile after e.wg.Wait(): close(e.results), close(e.errors), the
\* results merged, the first error (if any) returned with them; ExecuteFile
\* merges the file's result into totalResult only when there was no error,
\* returns totalResult and the error, and the deferred e.cancel() runs.
Finish ==
    /\ engine = "exec"
    /\ main.pc = "run"
    /\ AllWorkersDone
    /\ LET result == MergeAll(EmptyResult, results)
           err == IF errors = <<>> THEN "nil" ELSE Head(errors).msg
       IN main' = [pc |-> "returned",
                   file |-> result,
                   total |-> IF err = "nil" THEN merge(EmptyResult, result)
                                            ELSE EmptyResult,
                   err |-> err]
    /\ ctxDone' = TRUE
    /\ UNCHANGED <<engine, utilVars, retry, parseVars, coreVars,
                   execConfig, pool, statements, worker,
                   stmt, results, errors>>

\* -------------------------------------------------------------------- text

\* A text is a sequence of characters. A word (a keyword, an identifier)
\* stands as one character: the segmenters compare words whole.
Space == {" ", "\n"}

\* strings.ToUpper, on the one word the files spell in lower case.
Upper(c) == IF c = "select" THEN "SELECT" ELSE c
ToUpper(s) == [i \in 1..Len(s) |-> Upper(s[i])]

\* strings.TrimSpace.
RECURSIVE TrimLeft(_)
TrimLeft(s) ==
    IF s # <<>> /\ Head(s) \in Space THEN TrimLeft(Tail(s)) ELSE s
RECURSIVE TrimRight(_)
TrimRight(s) ==
    IF s # <<>> /\ s[Len(s)] \in Space
    THEN TrimRight(SubSeq(s, 1, Len(s) - 1))
    ELSE s
TrimSpace(s) == TrimRight(TrimLeft(s))

\* strings.HasPrefix, HasSuffix, TrimSuffix.
HasPrefix(s, p) == Len(s) >= Len(p) /\ SubSeq(s, 1, Len(p)) = p
HasSuffix(s, p) ==
    Len(s) >= Len(p) /\ SubSeq(s, Len(s) - Len(p) + 1, Len(s)) = p
TrimSuffix(s, p) ==
    IF HasSuffix(s, p) THEN SubSeq(s, 1, Len(s) - Len(p)) ELSE s

\* strings.Contains.
Contains(s, p) ==
    \E i \in 1..(Len(s) - Len(p) + 1) : SubSeq(s, i, i + Len(p) - 1) = p

\* strings.Split on a one-character separator, and strings.Join.
RECURSIVE Split(_, _)
Split(s, sep) ==
    IF \A i \in 1..Len(s) : s[i] # sep
    THEN <<s>>
    ELSE LET i == CHOOSE k \in 1..Len(s) :
                    s[k] = sep /\ \A j \in 1..(k - 1) : s[j] # sep
         IN <<SubSeq(s, 1, i - 1)>> \o Split(SubSeq(s, i + 1, Len(s)), sep)
RECURSIVE Join(_, _)
Join(ss, sep) ==
    IF ss = <<>> THEN <<>>
    ELSE IF Len(ss) = 1 THEN ss[1]
    ELSE ss[1] \o <<sep>> \o Join(Tail(ss), sep)

\* bufio.Scanner with ScanLines: the lines of the file, without a final
\* empty line.
ScanLines(content) ==
    LET lines == Split(content, "\n")
    IN IF lines[Len(lines)] = <<>>
       THEN SubSeq(lines, 1, Len(lines) - 1)
       ELSE lines

\* A line that both segmenters' callers skip: blank, or a "--" comment.
SkippedLine(line) == line = <<>> \/ HasPrefix(line, <<"-", "-">>)

\* -------------------------------------------------------- core: ParseFile

\* validKeywords of validateSQLContent.
validKeywords ==
    {"SELECT", "INSERT", "UPDATE", "DELETE", "CREATE", "ALTER", "DROP",
     "MERGE", "BEGIN", "DECLARE", "EXECUTE", "GRANT", "TRUNCATE", "COMMENT",
     "ANALYZE", "CALL"}

\* validateSQLContent with no check at all.
validateNothing(content) == "nil"

\* validateSQLContent: an error when no line is left after blank lines and
\* comment lines are dropped, or when what is left holds no keyword.
validateSQLContent(content) ==
    LET lines == Split(content, "\n")
        validLines ==
            SelectSeq([i \in 1..Len(lines) |-> TrimSpace(lines[i])],
                      LAMBDA l : ~SkippedLine(l))
        upper == ToUpper(Join(validLines, " "))
    IN IF Len(validLines) = 0 THEN "empty"
       ELSE IF \E i \in 1..Len(upper) : upper[i] \in validKeywords THEN "nil"
       ELSE "invalid"

\* The prefixes of a line that make ParseFile enter a PL/SQL block.
BlockOpeners ==
    {<<"BEGIN">>, <<"DECLARE">>,
     <<"CREATE", " ", "OR", " ", "REPLACE", " ", "PROCEDURE">>,
     <<"CREATE", " ", "PROCEDURE">>,
     <<"CREATE", " ", "OR", " ", "REPLACE", " ", "FUNCTION">>,
     <<"CREATE", " ", "FUNCTION">>,
     <<"CREATE", " ", "OR", " ", "REPLACE", " ", "TRIGGER">>,
     <<"CREATE", " ", "TRIGGER">>,
     <<"CREATE", " ", "OR", " ", "REPLACE", " ", "PACKAGE">>,
     <<"CREATE", " ", "PACKAGE">>}
IsBlockOpener(line) == \E p \in BlockOpeners : HasPrefix(ToUpper(line), p)

\* normalizeSQL: TrimSpace, and for a PL/SQL block every line trimmed,
\* blank lines dropped, and ordinary lines indented by baseIndent.
baseIndent == <<" ", " ", " ", " ">>
Unindented ==
    {<<"END">>, <<"EXCEPTION">>, <<"BEGIN">>, <<"DECLARE">>, <<"CREATE">>}
normalizeSQL(sql, sqlType) ==
    IF sqlType # "plsql" THEN TrimSpace(sql)
    ELSE LET lines == Split(sql, "\n")
             kept == SelectSeq([i \in 1..Len(lines) |-> TrimSpace(lines[i])],
                               LAMBDA l : l # <<>>)
             indent(l) == IF \E p \in Unindented : HasPrefix(ToUpper(l), p)
                          THEN <<>> ELSE baseIndent
         IN Join([i \in 1..Len(kept) |-> indent(kept[i]) \o kept[i]], "\n")

\* The type ParseFile gives a statement that is not a closed block.
StatementType(sql) ==
    IF HasPrefix(ToUpper(sql), <<"SELECT">>) THEN "query" ELSE "exec"

\* The path ParseFile is called with.
ScriptPath == "script.sql"

\* A models.SQLTask. Block is not a field of the task: it records whether
\* inPLSQLBlock was set when the task was appended.
SQLTask(sql, sqlType, lineNum, inBlock) ==
    [SQL |-> normalizeSQL(sql, sqlType), Type |-> sqlType,
     LineNum |-> lineNum, Filename |-> ScriptPath, Block |-> inBlock]

\* A line that ends a statement outside a block, and the line it never is.
EndsNoStatement(line) == FALSE
EndsStatement(line) == HasSuffix(line, <<";">>)

\* lineNum++ for every line the scanner returns, and a count that stands
\* still.
AfterScanStuck(lineNum) == lineNum
AfterScan(lineNum) == lineNum + 1

\* ParseFile's locals before the first line.
ScanStart ==
    [tasks |-> <<>>, sqlBuffer |-> <<>>, lineNum |-> 0,
     inPLSQLBlock |-> FALSE, hasContent |-> FALSE]

\* One iteration of ParseFile's "for scanner.Scan()".
ScanLine(st, text) ==
    LET line == TrimSpace(text)
        lineNum == AfterScan(st.lineNum)
        inBlock == st.inPLSQLBlock \/ IsBlockOpener(line)
        buffer == st.sqlBuffer \o line \o <<"\n">>
    IN IF SkippedLine(line) THEN [st EXCEPT !.lineNum = lineNum]
       ELSE IF inBlock /\ line = <<"/">>
       THEN [tasks |-> Append(st.tasks,
                 SQLTask(TrimSuffix(TrimSpace(buffer), <<"/">>), "plsql",
                         lineNum, TRUE)),
             sqlBuffer |-> <<>>, lineNum |-> lineNum,
             inPLSQLBlock |-> FALSE, hasContent |-> FALSE]
       ELSE IF ~inBlock /\ EndsStatement(line)
       THEN LET sql == TrimSuffix(TrimSpace(buffer), <<";">>)
            IN [tasks |-> Append(st.tasks,
                    SQLTask(sql, StatementType(sql), lineNum, FALSE)),
                sqlBuffer |-> <<>>, lineNum |-> lineNum,
                inPLSQLBlock |-> FALSE, hasContent |-> FALSE]
       ELSE [tasks |-> st.tasks, sqlBuffer |-> buffer, lineNum |-> lineNum,
             inPLSQLBlock |-> inBlock, hasContent |-> TRUE]

RECURSIVE ScanAll(_, _)
ScanAll(st, lines) ==
    IF lines = <<>> THEN st ELSE ScanAll(ScanLine(st, Head(lines)), Tail(lines))

\* ParseFile without its last step: what the buffer holds at the end of the
\* file is dropped.
ParseFileNoTail(content) ==
    IF validateSQLContent(content) # "nil"
    THEN [tasks |-> <<>>, err |-> validateSQLContent(content), open |-> FALSE]
    ELSE LET st == ScanAll(ScanStart, ScanLines(content))
         IN [tasks |-> st.tasks, err |-> "nil", open |-> st.inPLSQLBlock]

\* ParseFile: the content validated, the lines scanned, and what the buffer
\* still holds at the end of the file appended as a last task. open is the
\* value inPLSQLBlock has when the scan ends.
ParseFile(content) ==
    IF validateSQLContent(content) # "nil"
    THEN [tasks |-> <<>>, err |-> validateSQLContent(content), open |-> FALSE]
    ELSE LET st == ScanAll(ScanStart, ScanLines(content))
             sql == TrimSpace(st.sqlBuffer)
         IN [tasks |-> IF st.hasContent
                       THEN Append(st.tasks,
                                SQLTask(sql, StatementType(sql), st.lineNum,
                                        st.inPLSQLBlock))
                       ELSE st.tasks,
             err |-> "nil",
             open |-> st.inPLSQLBlock]

\* ------------------------------------------------------- exec: SQLParser

\* NewSQLParser: the reader before the first character, no state set.
NewSQLParser == [pos |-> 1, inString |-> FALSE, inMultiComment |-> FALSE]

\* isPLSQLBlock on the statement read so far.
isPLSQLBlock(currentStmt) ==
    LET s == TrimSpace(ToUpper(currentStmt))
    IN \/ HasPrefix(s, <<"CREATE", " ", "OR", " ", "REPLACE">>)
       \/ HasPrefix(s, <<"DECLARE">>)
       \/ HasPrefix(s, <<"BEGIN">>)

\* finalizePLSQLBlock and finalizeStatement.
finalizePLSQLBlock(currentStmt) == TrimSpace(currentStmt)
finalizeStatement(currentStmt) ==
    TrimSpace(TrimSuffix(TrimSpace(currentStmt), <<";">>))

\* skipLine: the position after the next newline, or after the last
\* character.
RECURSIVE skipLine(_, _)
skipLine(content, pos) ==
    IF pos > Len(content) THEN pos
    ELSE IF content[pos] = "\n" THEN pos + 1
    ELSE skipLine(content, pos + 1)

\* inString after a quote character: a literal opens, or closes unless
\* the previous character is a backslash.
AfterQuote(inString, previousChar) ==
    IF ~inString THEN TRUE ELSE previousChar = "\\"

\* The loop of NextStatement from position p.pos with the locals
\* previousChar and currentStmt: the statement returned (or the error), and
\* the parser's fields at the return.
RECURSIVE ReadLoop(_, _, _, _)
ReadLoop(content, p, previousChar, currentStmt) ==
    IF p.pos > Len(content)
    THEN IF Len(currentStmt) > 0
         THEN [stmt |-> finalizeStatement(currentStmt), err |-> "nil",
               parser |-> p]
         ELSE [stmt |-> <<>>, err |-> "EOF", parser |-> p]
    ELSE
    LET char == content[p.pos]
        inString ==
            IF char = "'" /\ ~p.inMultiComment
            THEN AfterQuote(p.inString, previousChar)
            ELSE p.inString
        q == [pos |-> p.pos + 1, inString |-> inString,
              inMultiComment |-> p.inMultiComment]
    IN IF ~inString /\ char = "/" /\ previousChar = "*" /\ q.inMultiComment
       THEN ReadLoop(content, [q EXCEPT !.inMultiComment = FALSE], char,
                     currentStmt)
       ELSE IF ~inString /\ char = "*" /\ previousChar = "/"
               /\ ~q.inMultiComment
       THEN ReadLoop(content, [q EXCEPT !.inMultiComment = TRUE], char,
                     currentStmt)
       ELSE IF ~inString /\ ~q.inMultiComment /\ char = "-"
               /\ previousChar = "-"
       THEN ReadLoop(content, [q EXCEPT !.pos = skipLine(content, q.pos)],
                     previousChar, currentStmt)
       ELSE IF q.inMultiComment
       THEN ReadLoop(content, q, char, currentStmt)
       ELSE IF ~inString /\ char = "/" /\ isPLSQLBlock(currentStmt)
       THEN [stmt |-> finalizePLSQLBlock(currentStmt), err |-> "nil",
             parser |-> q]
       ELSE IF ~inString /\ char = ";"
       THEN IF TrimSpace(currentStmt) # <<>>
            THEN [stmt |-> TrimSpace(currentStmt), err |-> "nil",
                  parser |-> q]
            ELSE ReadLoop(content, q, previousChar, <<>>)
       ELSE ReadLoop(content, q, char, Append(currentStmt, char))

\* SQLParser.NextStatement: currentStmt reset, previousChar zero.
NextStatement(content, p) == ReadLoop(content, p, "", <<>>)

\* DetermineSQLType.
DetermineSQLType(text) ==
    LET s == TrimSpace(ToUpper(text))
        starts(w) == HasPrefix(s, <<w>>)
        startsSp(w) == HasPrefix(s, <<w, " ">>)
        has(w) == \E i \in 1..Len(s) : s[i] = w
    IN IF \E w \in {"CREATE", "ALTER", "DROP", "TRUNCATE"} : startsSp(w)
       THEN "DDL"
       ELSE IF \E w \in {"INSERT", "UPDATE", "DELETE", "MERGE"} : startsSp(w)
       THEN "DML"
       ELSE IF \E w \in {"GRANT", "REVOKE"} : startsSp(w)
       THEN "DCL"
       ELSE IF \E w \in {"COMMIT", "ROLLBACK", "SAVEPOINT"} : starts(w)
       THEN "TCL"
       ELSE IF /\ Contains(s, <<"CREATE", " ", "OR", " ", "REPLACE">>)
               /\ \E w \in {"PROCEDURE", "FUNCTION", "PACKAGE", "TRIGGER"} :
                      has(w)
       THEN "PL/SQL"
       ELSE IF starts("DECLARE") \/ starts("BEGIN")
       THEN "Anonymous Block"
       ELSE IF startsSp("SELECT")
       THEN "Query"
       ELSE "Unknown"

\* The function executeStatement's switch calls for a type.
ExecPath(sqlType) ==
    CASE sqlType = "DML" -> "executeDML"
      [] sqlType \in {"PL/SQL", "Anonymous Block"} -> "executePLSQL"
      [] sqlType = "Query" -> "executeQuery"
      [] OTHER -> "executeDirectly"

\* The function executeTask's switch calls for a task type.
CorePath(taskType) ==
    CASE taskType = "query" -> "executeQuery"
      [] taskType = "plsql" -> "executePLSQL"
      [] OTHER -> "executeSQL"

\* ------------------------------------------------- the files and the runs

\* The lines a file is made of.
LineForms ==
    {<<" ", "select", " ", "x", ";">>,
     <<"select">>,
     <<"x", ";">>,
     <<"BEGIN">>,
     <<"/">>,
     <<";">>,
     <<"-", "-", "x">>,
     <<>>,
     <<"select", " ", "'", "x", ";">>,
     <<"'", ";">>}

\* The files: up to MaxLines lines, joined by newlines.
Files ==
    UNION {{Join(ls, "\n") : ls \in [1..n -> LineForms]} : n \in 0..MaxLines}

\* What a statement's execution can return.
RunOutcomes == {"nil", "terminal"}

\* The segmenter run before its first step. tasks are the units produced
\* so far, calls the calls made to the database driver, next the unit to
\* execute next.
NewSeg ==
    [pc |-> "start", tasks |-> <<>>, err |-> "nil", open |-> FALSE,
     parser |-> NewSQLParser, next |-> 1, calls |-> <<>>,
     result |-> NewResult, execResult |-> EmptyResult]

\* models.NewErrorResult: Success 0, the error in Errors, Failed left zero.
NewErrorResult(err) == [Success |-> 0, Failed |-> 0, Errors |-> <<err>>]

\* Executor.ExecuteFile up to executeParallel: ParseFile, and on its error
\* the return of NewErrorResult(err).
ExecuteFileParse ==
    /\ engine = "core"
    /\ seg.pc = "start"
    /\ LET r == ParseFile(file)
       IN seg' = [seg EXCEPT
                    !.tasks = r.tasks, !.err = r.err, !.open = r.open,
                    !.pc = IF r.err = "nil" THEN "run" ELSE "returned",
                    !.result = IF r.err = "nil" THEN NewResult
                                                ELSE NewErrorResult(r.err)]
    /\ UNCHANGED <<engine, utilVars, retry, file, coreVars, execVars>>

\* executeParallel on the parsed tasks with one task in flight at a time:
\* executeTask calls the function its Type selects, and the outcome is
\* recorded with AddSuccess or AddError.
ExecuteFileTask ==
    /\ engine = "core"
    /\ seg.pc = "run"
    /\ seg.next <= Len(seg.tasks)
    /\ \E err \in RunOutcomes :
         LET t == seg.tasks[seg.next]
         IN seg' = [seg EXCEPT
                      !.calls = Append(@, [path |-> CorePath(t.Type),
                                           unit |-> seg.next,
                                           err |-> err]),
                      !.result = IF err = "nil" THEN AddSuccess(@)
                                 ELSE AddError(@, t, err),
                      !.next = @ + 1]
    /\ UNCHANGED <<engine, utilVars, retry, file, coreVars, execVars>>

\* executeParallel's wg.Wait() and ExecuteFile's return of the result.
ExecuteFileReturn ==
    /\ engine = "core"
    /\ seg.pc = "run"
    /\ seg.next > Len(seg.tasks)
    /\ seg' = [seg EXCEPT !.pc = "returned"]
    /\ UNCHANGED <<engine, utilVars, retry, file, coreVars, execVars>>

\* One turn of executeOneFile's reader goroutine: NextStatement returned a
\* statement, which is trimmed and, unless empty, sent on the channel.
ReadStatement ==
    /\ engine = "exec"
    /\ seg.pc = "start"
    /\ LET r == NextStatement(file, seg.parser)
       IN /\ r.err = "nil"
          /\ seg' = [seg EXCEPT
                       !.parser = r.parser,
                       !.tasks = IF TrimSpace(r.stmt) # <<>>
                                 THEN Append(@, TrimSpace(r.stmt)) ELSE @]
    /\ UNCHANGED <<engine, utilVars, retry, file, coreVars, execVars>>

\* The reader goroutine's last turn: NextStatement returned io.EOF and the
\* channel is closed.
ReadEOF ==
    /\ engine = "exec"
    /\ seg.pc = "start"
    /\ NextStatement(file, seg.parser).err = "EOF"
    /\ seg' = [seg EXCEPT !.pc = "run"]
    /\ UNCHANGED <<engine, utilVars, retry, file, coreVars, execVars>>

\* worker's counting of a statement with the value it appends spelled out:
\* the error executeStatement returned, and nothing of the statement.
CountedValue(r, err) ==
    IF err # "nil"
    THEN [r EXCEPT !.FailureCount = @ + 1,
                   !.Errors = Append(@, [msg |-> err])]
    ELSE [r EXCEPT !.SuccessCount = @ + 1]

\* The reader goroutine when NextStatement returns an error that is not
\* io.EOF (the file's reader failed): the error goes to e.errors, the
\* channel is closed, and executeOneFile will return the error.
ReadError ==
    /\ engine = "exec"
    /\ seg.pc = "start"
    /\ seg' = [seg EXCEPT !.pc = "run", !.err = "read"]
    /\ UNCHANGED <<engine, utilVars, retry, file, coreVars, execVars>>

\* A worker with the next statement of the channel: executeStatement calls
\* the function DetermineSQLType selects, and the outcome is counted.
ExecuteStatement ==
    /\ engine = "exec"
    /\ seg.pc \in {"start", "run"}
    /\ seg.next <= Len(seg.tasks)
    /\ \E err \in RunOutcomes :
         LET s == seg.tasks[seg.next]
         IN seg' = [seg EXCEPT
                      !.calls = Append(@,
                          [path |-> ExecPath(DetermineSQLType(s)),
                           unit |-> seg.next,
                           err |-> err]),
                      !.execResult = CountedValue(@, err),
                      !.next = @ + 1]
    /\ UNCHANGED <<engine, utilVars, retry, file, coreVars, execVars>>

\* executeOneFile's return once the channel is closed and drained.
ExecuteOneFileReturn ==
    /\ engine = "exec"
    /\ seg.pc = "run"
    /\ seg.next > Len(seg.tasks)
    /\ seg' = [seg EXCEPT !.pc = "returned"]
    /\ UNCHANGED <<engine, utilVars, retry, file, coreVars, execVars>>

\* ----------------------------------------------------------------- claims

\* The tasks of call c, and those whose executeTask has returned.
TasksOf(c) == 1..call[c].ntasks
Ended(c, t) == task[c][t].pc \in {"lock", "record", "sem", "wgdone", "done"}

\* The statements of the file, and the states a statement ends in.
StmtsOf == 1..statements.total
NotAdmittedStates ==
    {"notadmitted_pooltimeout", "notadmitted_ctx", "notadmitted_conn"}
Terminal(s) == stmt[s] \in {"succeeded", "failed"} \cup NotAdmittedStates

\* C1: when the run returns, successCount + failureCount is the number of
\* units of the script, in the core engine (executeParallel's Result) and in
\* the executor engine (the ExecutionResult of SQLExecutor.ExecuteFile).
C1_EveryUnitCounted ==
    /\ \A c \in Calls :
         call[c].pc = "returned" =>
            call[c].result.Success + call[c].result.Failed = call[c].ntasks
    /\ main.pc = "returned" =>
         main.total.SuccessCount + main.total.FailureCount
            = statements.total

\* C2: the Result a call of executeParallel returns has Success equal to the
\* number of its tasks whose executeTask returned nil and Failed equal to
\* the number whose executeTask returned an error, whatever the worker
\* count and whatever the other concurrent calls do.
C2_CountsMatchOutcomes ==
    \A c \in Calls :
        call[c].pc = "returned" =>
            /\ call[c].result.Success =
                 Cardinality({t \in TasksOf(c) :
                                Ended(c, t) /\ task[c][t].err = "nil"})
            /\ call[c].result.Failed =
                 Cardinality({t \in TasksOf(c) :
                                Ended(c, t) /\ task[c][t].err # "nil"})

\* C2's case: two tasks that succeed on their first attempt, behind a
\* semaphore of one slot, have been run and counted.
C2_Witness ==
    /\ engine = "core"
    /\ config.MaxConcurrent = 1
    /\ call[1].ntasks = 2
    /\ call[1].pc = "returned"
    /\ \A t \in {1, 2} : task[1][t].attempts = 1 /\ task[1][t].err = "nil"
    /\ call[1].result.Success = 2
    /\ call[1].result.Failed = 0

\* C3: when the run returns and some statement has failed (in execution or
\* in admission), every other statement has been attempted: dequeued and
\* taken to admission or execution.
C3_FailureIsolation ==
    /\ \A c \in Calls :
         call[c].pc = "returned" =>
            \A t, u \in TasksOf(c) :
                (t # u /\ task[c][t].err # "nil") => task[c][u].attempts >= 1
    /\ main.pc = "returned" =>
         \A s, u \in StmtsOf :
            (s # u /\ stmt[s] \in {"failed"} \cup NotAdmittedStates)
               => stmt[u] \notin {"unread", "queued", "pending"}

\* C4: when the run call returns, every unit has reached Succeeded or
\* Failed (a failed admission being a failure).
C4_AllTerminalAtReturn ==
    /\ \A c \in Calls :
         call[c].pc = "returned" =>
            \A t \in TasksOf(c) : task[c][t].pc = "done"
    /\ main.pc = "returned" => \A s \in StmtsOf : Terminal(s)

\* C5: a statement whose every attempt failed with an error classified
\* retryable was attempted exactly MaxRetries times (MaxRetries being a
\* count of attempts, at least 1), and one whose first attempt failed with
\* a terminal error was attempted once.  In both engines the loop goes on
\* only after an error classified retryable, so a statement that ends with
\* one had nothing else.
C5_AttemptCount ==
    /\ \A c \in Calls, t \in TaskIds :
         (Ended(c, t) /\ config.MaxRetries >= 1) =>
            /\ isRetryableError(task[c][t].err) =>
                  task[c][t].attempts = config.MaxRetries
            /\ (task[c][t].first # "nil"
                   /\ ~isRetryableError(task[c][t].first)) =>
                  task[c][t].attempts = 1
    /\ \A w \in Workers :
         (/\ worker[w].pc = "release"
          /\ worker[w].err # "nil"
          /\ execConfig.MaxRetries >= 1) =>
            IF shouldRetry(worker[w].err)
            THEN worker[w].attempts = execConfig.MaxRetries
            ELSE worker[w].attempts = 1

\* C6: an Acquire that found the pool at capacity fails with the
\* pool-timeout error only if no Release happened while it waited.
C6_TimeoutOnlyWithoutRelease ==
    \A w \in Workers :
        (worker[w].pc = "error" /\ worker[w].err = "pooltimeout")
            => ~worker[w].sawRelease

\* The holder of lease l is still using it.
Holding(l) ==
    IF l = 0
    THEN main.pc = "enable_exec"
    ELSE \E w \in Workers :
            worker[w].stmt = l /\ worker[w].pc \in {"exec", "sleep", "release"}

\* C7: every lease Acquire returned is released exactly once when its
\* holder is through with it (never before, never twice), and once every
\* worker has returned the pool's active count is 0.
C7_LeaseReleasedOnce ==
    /\ \A l \in LeaseIds :
         /\ pool.acquired[l] <= 1
         /\ pool.released[l] = IF Holding(l) THEN 0 ELSE pool.acquired[l]
    /\ (Running /\ AllWorkersDone) => pool.active = 0

\* C7's case: the run is over, one statement succeeded on its lease and
\* one failed on its lease, and both leases have been released.
C7_Witness ==
    /\ main.pc = "returned"
    /\ \E s, u \in StmtsOf :
         /\ stmt[s] = "succeeded" /\ pool.released[s] = 1
         /\ stmt[u] = "failed" /\ pool.released[u] = 1

\* C8: 0 <= active <= maxConns in every state.
C8_ActiveWithinMax ==
    /\ 0 <= pool.active
    /\ pool.active <= execConfig.maxConns

\* C8's case: all slots are taken and a further Acquire has been turned
\* away into the wait.
C8_Witness ==
    /\ engine = "exec"
    /\ pool.active = execConfig.maxConns
    /\ \E w \in Workers : worker[w].pc = "wait"
    /\ \E w \in Workers : worker[w].pc = "exec"

\* The entries of the error list errs for statement s with message msg.
Entries(errs, s, msg) ==
    {i \in DOMAIN errs : errs[i] = [stmt |-> s, msg |-> msg]}

\* C9: a statement whose Acquire ended in the pool timeout is, when the run
\* returns, recorded as exactly one failure carrying the pool-timeout error.
C9_PoolTimeoutRecorded ==
    main.pc = "returned" =>
        \A s \in StmtsOf :
            stmt[s] = "notadmitted_pooltimeout" =>
                /\ Cardinality(Entries(main.total.Errors, s, "pooltimeout"))
                      = 1
                /\ main.total.FailureCount >= 1

\* Tasks of call c whose goroutine runs and has not given its slot back.
InFlightTasks(c) ==
    {t \in TaskIds : task[c][t].pc \in {"attempt", "sleep", "lock", "record",
                                        "sem"}}

\* Statements admitted, executing or sleeping between retries.
InFlightStmts == {s \in StmtIds : stmt[s] \in {"executing", "retrying"}}

\* C10: the statements in flight never outnumber the configured
\* concurrency: MaxConcurrent per executeParallel call, ParallelDegree in
\* executeOneFile.
C10_InFlightBounded ==
    /\ engine = "core" =>
         \A c \in Calls :
            Cardinality(InFlightTasks(c)) <= config.MaxConcurrent
    /\ engine = "exec" =>
         Cardinality(InFlightStmts) <= execConfig.ParallelDegree

\* C10's case: one slot, two tasks; the first is asleep between retries
\* and the second has not been started.
C10_Witness ==
    /\ engine = "core"
    /\ config.MaxConcurrent = 1
    /\ call[1].ntasks = 2
    /\ call[1].next = 1
    /\ task[1][1].pc = "sleep"

\* The units a segmenter has emitted, and the text of unit i. ParseFile
\* emits its tasks when it returns; the SQLParser's reader emits statement
\* by statement and is through when it has seen io.EOF.
Units == 1..Len(seg.tasks)
UnitText(i) == IF engine = "core" THEN seg.tasks[i].SQL ELSE seg.tasks[i]
Segmented == seg.pc # "start"

\* The trimmed lines of the file, and the numbers of those that are neither
\* blank nor comments.
Lines == LET ls == ScanLines(file) IN [i \in 1..Len(ls) |-> TrimSpace(ls[i])]
Kept == {i \in 1..Len(Lines) : ~SkippedLine(Lines[i])}

\* The number of quote characters in a text.
RECURSIVE Quotes(_)
Quotes(s) ==
    IF s = <<>> THEN 0
    ELSE (IF Head(s) = "'" THEN 1 ELSE 0) + Quotes(Tail(s))

\* C11: a ";" or "/" inside a single-quoted string literal never ends a
\* unit, also when the literal spans several lines: in a file whose
\* literals are all closed, every emitted unit holds whole literals only
\* (an even number of quotes), in both segmenters.
C11_NoSplitInsideLiteral ==
    (Segmented /\ seg.err = "nil" /\ Quotes(file) % 2 = 0)
        => \A i \in Units : Quotes(UnitText(i)) % 2 = 0

\* C12: when the file ends inside a procedural block, ParseFile fails with
\* an error and emits no unit for the partial block.
C12_UnterminatedBlockFails ==
    (engine = "core" /\ Segmented /\ seg.open)
        => /\ seg.err # "nil"
           /\ \A i \in Units : ~seg.tasks[i].Block

\* A file that is one procedural block: its first line that counts opens a
\* block, its last is the only line consisting solely of "/".
OneBlockFile ==
    /\ Cardinality(Kept) >= 2
    /\ LET first == CHOOSE i \in Kept : \A j \in Kept : i <= j
           last == CHOOSE i \in Kept : \A j \in Kept : j <= i
       IN /\ IsBlockOpener(Lines[first])
          /\ \A i \in Kept : Lines[i] = <<"/">> <=> i = last

\* Whether unit i is treated as a procedural block by its engine.
Procedural(i) ==
    IF engine = "core" THEN seg.tasks[i].Type = "plsql"
    ELSE ExecPath(DetermineSQLType(seg.tasks[i])) = "executePLSQL"

\* C13: a procedural block yields exactly one unit, of kind ProceduralBlock,
\* whose text excludes the closing "/"; the semicolons inside the block do
\* not split it. Stated for both segmenters on a file that is one block
\* and holds no string literal.
C13_BlockIsOneUnit ==
    (Segmented /\ seg.err = "nil" /\ OneBlockFile /\ Quotes(file) = 0)
        => /\ Len(seg.tasks) = 1
           /\ Procedural(1)
           /\ ~HasSuffix(TrimSpace(UnitText(1)), <<"/">>)

\* C14: every unit a segmenter emits has a text that is not empty and not
\* only whitespace.
C14_NoBlankUnit ==
    \A i \in Units : TrimSpace(UnitText(i)) # <<>>

\* The lines numbered b..e that count, joined as ParseFile's buffer joins
\* them.
Accumulated(b, e) ==
    LET idx == SelectSeq([k \in 1..(e - b + 1) |-> b + k - 1],
                         LAMBDA i : i \in Kept)
    IN Join([k \in 1..Len(idx) |-> Lines[idx[k]]], "\n")

\* The line after the one that ended the unit before unit j.
UnitStart(j) == IF j = 1 THEN 1 ELSE seg.tasks[j - 1].LineNum + 1

\* The lines that end with the terminator, and a file without any block.
Terminated == {i \in Kept : HasSuffix(Lines[i], <<";">>)}
NoBlockFile == \A i \in Kept : ~IsBlockOpener(Lines[i])

UnterminatedTail ==
    /\ Kept # {}
    /\ ~seg.open
    /\ LET last == CHOOSE i \in Kept : \A j \in Kept : j <= i
       IN ~HasSuffix(Lines[last], <<";">>) /\ Lines[last] # <<"/">>

\* C16: content left in the buffer at the end of the input, outside a
\* block, is emitted as one final unit, a query if it starts with SELECT
\* and a mutation otherwise, and ExecuteFile executes and counts it like
\* the other units.
C16_TailIsLastUnit ==
    (engine = "core" /\ Segmented /\ seg.err = "nil" /\ UnterminatedTail)
        => /\ seg.tasks # <<>>
           /\ LET n == Len(seg.tasks)
                  t == seg.tasks[n]
              IN /\ t.SQL = TrimSpace(Accumulated(UnitStart(n), Len(Lines)))
                 /\ t.Type = IF HasPrefix(ToUpper(t.SQL), <<"SELECT">>)
                             THEN "query" ELSE "exec"
                 /\ seg.pc = "returned" =>
                      /\ \E k \in 1..Len(seg.calls) : seg.calls[k].unit = n
                      /\ seg.result.Success + seg.result.Failed = n

\* A file that is one SELECT without a terminator has been run: one query
\* unit, executed and counted.
C16_Witness ==
    /\ engine = "core"
    /\ file = <<"select">>
    /\ seg.pc = "returned"
    /\ Len(seg.tasks) = 1
    /\ seg.tasks[1].Type = "query"
    /\ seg.result.Success = 1

\* A file in which, comment lines and blank lines aside, no line holds a
\* SQL keyword.
NoStatement ==
    \A i \in Kept : \A k \in 1..Len(Lines[i]) :
        Upper(Lines[i][k]) \notin validKeywords

C18_CommentsOnlyIsEmptyRun ==
    (engine = "core" /\ Segmented /\ Kept = {})
        => /\ seg.err = "nil"
           /\ seg.tasks = <<>>
           /\ seg.result.Success = 0
           /\ seg.result.Failed = 0

\* C19: a run that ends with a parse error has made no call to the
\* database, in either engine.
C19_ParseErrorBeforeExecution ==
    (seg.pc = "returned" /\ seg.err # "nil") => seg.calls = <<>>

\* The first word of a text, in upper case.
FirstWord(text) ==
    LET s == ToUpper(TrimSpace(text)) IN IF s = <<>> THEN "" ELSE Head(s)

\* C20: a unit produced from a procedural block is of kind ProceduralBlock;
\* any other unit is a query iff its first keyword is SELECT, compared
\* without case, and a mutation otherwise; and the kind selects the query
\* path or the exec path.
C20_Classification ==
    /\ engine = "core" =>
         /\ \A i \in Units :
              seg.tasks[i].Type =
                  IF seg.tasks[i].Block THEN "plsql"
                  ELSE IF FirstWord(seg.tasks[i].SQL) = "SELECT" THEN "query"
                  ELSE "exec"
         /\ \A k \in 1..Len(seg.calls) :
              seg.calls[k].path = "executeQuery"
                  <=> seg.tasks[seg.calls[k].unit].Type = "query"
    /\ engine = "exec" =>
         \A i \in Units :
              ExecPath(DetermineSQLType(seg.tasks[i])) = "executeQuery"
                  <=> FirstWord(seg.tasks[i]) = "SELECT"

\* ------------------------------------------- the retry loop of one statement

\* The words error messages are made of.  A word stands for a stretch of the
\* message: an "ORA-nnnnn:" code, a transport phrase as the operating system
\* spells it, or any other text.
ErrorWords == {"ORA-03113:", "ORA-12547:", "Connection reset", "failed"}

\* Longest error message, in words.
MaxMessageLen == 2

\* err.Error() of the errors an attempt can return.
Messages == UNION {[1..n -> ErrorWords] : n \in 1..MaxMessageLen}

\* A nil error.
NoError == <<>>

\* The integer a word gives to the verb %d of the format "ORA-%d:", or -1
\* when the word does not match the format.
OraCode(word) ==
    CASE word = "ORA-03113:" -> 3113
      [] word = "ORA-12547:" -> 12547
      [] OTHER -> -1

\* fmt.Sscanf(errStr, "ORA-%d:", &errorCode): the format is matched at the
\* start of the message only; -1 stands for scanErr # nil.
Sscanf(errStr) == IF errStr = <<>> THEN -1 ELSE OraCode(Head(errStr))

\* The keys of the oracleErrors map.
oracleErrors ==
    {1033, 1034, 1089, 1090, 1092, 3113, 3114, 12153, 12154, 12170, 12171,
     12257, 12514, 12528, 12537, 12541, 12571}

networkErrors ==
    {"connection refused", "connection reset", "connection timed out",
     "no route to host", "network is unreachable"}

\* strings.ToLower.
Lower(word) ==
    IF word = "Connection reset" THEN "connection reset" ELSE word
ToLower(errStr) == [k \in 1..Len(errStr) |-> Lower(errStr[k])]

\* isRetryableError on the message of the error: nil is not retryable; a
\* message that starts with an ORA code is decided by the map alone; any
\* other message by the transport phrases.
isRetryableErrorText(errStr) ==
    IF errStr = NoError
    THEN FALSE
    ELSE IF Sscanf(errStr) # -1
         THEN Sscanf(errStr) \in oracleErrors
         ELSE \E netErr \in networkErrors :
                 Contains(ToLower(errStr), <<netErr>>)

\* e.execConfig.RetryInterval, the unit in which sleeps are counted; the
\* core engine's unit is time.Second.
RetryInterval == 1

\* Largest MaxRetries of the exec engine's retry loop.
MaxExecRetries == 2

\* One call of executeTask / executeStatement before its first statement.
\* slept lists the sleeps made so far, retryable is the classifier's answer
\* for err, ret is the error returned.
NewRetry ==
    [pc |-> "call", i |-> 0, retries |-> 0, err |-> NoError, attempts |-> 0,
     slept |-> <<>>, retryable |-> FALSE, ret |-> NoError]

\* executeTask's position after the loop condition is evaluated for i.
TaskPc(i) == IF LoopHead(i) = "lock" THEN "returned" ELSE LoopHead(i)

\* executeTask is entered: var err error; i := 0.
TaskCall ==
    /\ engine = "core"
    /\ retry.pc = "call"
    /\ retry' = [retry EXCEPT !.pc = TaskPc(0)]
    /\ UNCHANGED <<engine, utilVars, parseVars, coreVars, execVars>>

\* time.Sleep(time.Second * time.Duration(i)).
TaskSleep ==
    /\ engine = "core"
    /\ retry.pc = "sleep"
    /\ retry' = [retry EXCEPT !.slept = Append(@, retry.i),
                              !.pc = "attempt"]
    /\ UNCHANGED <<engine, utilVars, parseVars, coreVars, execVars>>

\* One pass of executeTask's loop body from the switch on: nil and a
\* non-retryable error return, a retryable error goes to i++ and the loop
\* condition, which returns err when it fails.
TaskAttempt ==
    /\ engine = "core"
    /\ retry.pc = "attempt"
    /\ \E err \in Messages \cup {NoError} :
         LET again == isRetryableErrorText(err)
             pc == IF again THEN TaskPc(retry.i + 1) ELSE "returned"
         IN retry' = [retry EXCEPT !.err = err,
                                   !.attempts = @ + 1,
                                   !.retryable = again,
                                   !.i = IF again THEN @ + 1 ELSE @,
                                   !.pc = pc,
                                   !.ret = IF pc = "returned" THEN err ELSE @]
    /\ UNCHANGED <<engine, utilVars, parseVars, coreVars, execVars>>

\* executeStatement is entered: retries := 0 and the loop condition.
StatementCall ==
    /\ engine = "exec"
    /\ retry.pc = "call"
    /\ retry' = [retry EXCEPT !.pc = IF MayRetry(0) THEN "exec"
                                     ELSE "returned"]
    /\ UNCHANGED <<engine, utilVars, parseVars, coreVars, execVars>>

\* One pass of executeStatement's loop body: nil returns, an error that
\* shouldRetry refuses returns, otherwise retries++ and either the sleep or,
\* with the loop condition false, return err.
StatementAttempt ==
    /\ engine = "exec"
    /\ retry.pc = "exec"
    /\ \E err \in Messages \cup {NoError} :
         LET again == err # NoError /\ shouldRetry(err)
             pc == IF ~again THEN "returned"
                   ELSE IF MayRetry(retry.retries + 1) THEN "sleep"
                   ELSE "returned"
         IN retry' = [retry EXCEPT !.err = err,
                                   !.attempts = @ + 1,
                                   !.retryable = again,
                                   !.retries = IF again THEN @ + 1 ELSE @,
                                   !.pc = pc,
                                   !.ret = IF pc = "returned" THEN err ELSE @]
    /\ UNCHANGED <<engine, utilVars, parseVars, coreVars, execVars>>

\* time.Sleep(e.execConfig.RetryInterval), then the loop condition, which
\* was true before the sleep.
StatementSleep ==
    /\ engine = "exec"
    /\ retry.pc = "sleep"
    /\ retry' = [retry EXCEPT !.slept = Append(@, RetryInterval),
                              !.pc = "exec"]
    /\ UNCHANGED <<engine, utilVars, parseVars, coreVars, execVars>>

\* The error's code is in the allow-list of transient codes.
ListedCode(errStr) == Sscanf(errStr) \in oracleErrors

\* The message contains a transport-failure phrase, in any letter case.
TransportPhrase(errStr) ==
    \E k \in 1..Len(errStr) : Lower(errStr[k]) \in networkErrors

\* C21: the classifier calls an error retryable exactly when its code is in
\* the allow-list or its message contains a transport-failure phrase; either
\* check alone suffices, and an error passing neither is terminal.
C21_IndependentChecks ==
    (engine = "core" /\ retry.attempts > 0 /\ retry.err # NoError)
        => (retry.retryable <=>
               (ListedCode(retry.err) \/ TransportPhrase(retry.err)))

\* C22: in the retry loop of a statement, a sleep happens only before an
\* attempt other than the first, the k-th sleep lasts k times the base
\* interval, a terminal error returns at once without a sleep, and the error
\* returned after the attempts is the last attempt's error.
C22_RetryLoop ==
    /\ Len(retry.slept) <= retry.attempts
    /\ \A k \in 1..Len(retry.slept) : retry.slept[k] = k * RetryInterval
    /\ (/\ retry.attempts > 0
        /\ retry.err # NoError
        /\ ~(ListedCode(retry.err) \/ TransportPhrase(retry.err)))
           => retry.pc = "returned"
    /\ (retry.pc = "returned" /\ retry.attempts > 0) => retry.ret = retry.err

\* C23: a worker that sleeps between two attempts of a statement holds no
\* lease: the lease it executed on was released before the sleep.
C23_NoLeaseWhileSleeping ==
    \A w \in Workers :
        worker[w].pc = "sleep" =>
            pool.acquired[worker[w].stmt] = pool.released[worker[w].stmt]

\* The statements of the file that have been executed to an outcome.
Completed(status) == {s \in StmtsOf : stmt[s] = status}

\* C24: when the run was cancelled (a statement was refused its connection
\* because e.ctx was done), the outcomes of the statements that had
\* completed are in the aggregate ExecuteFile returns.
C24_CancellationKeepsCompleted ==
    (main.pc = "returned" /\ \E s \in StmtsOf : stmt[s] = "notadmitted_ctx")
        => /\ main.total.SuccessCount = Cardinality(Completed("succeeded"))
           /\ main.total.FailureCount = Cardinality(Completed("failed"))

\* C26: every task whose outcome is recorded was attempted at least once,
\* for every MaxRetries that Load lets through.
C26_AtLeastOneAttempt ==
    \A c \in Calls, t \in TaskIds : Ended(c, t) => task[c][t].attempts >= 1

\* C30: a waiting Acquire ends with the highest-priority event that has
\* occurred: never with an error once a lease was released, and with the
\* pool-timeout error only while e.ctx is not done.
C30_AcquirePriority ==
    [][\A w \in Workers :
          (worker[w].pc = "wait" /\ worker'[w].pc = "error") =>
              /\ ~worker[w].sawRelease
              /\ worker'[w].err = IF ctxDone THEN "ctx" ELSE "pooltimeout"]_vars

\* The error list of the run's result, and whether one of its entries is
\* the record of unit u's failure with the error err: the unit's text, its
\* line, its file and the error's message.
RunErrors ==
    IF engine = "core" THEN seg.result.Errors ELSE seg.execResult.Errors
EntryFor(e, u, err) ==
    /\ "task" \in DOMAIN e
    /\ e.task.SQL = UnitText(u)
    /\ e.task.LineNum = seg.tasks[u].LineNum
    /\ e.task.Filename = ScriptPath
    /\ e.msg = err

\* C25: for every statement recorded as failed the error list holds
\* exactly one entry, with the statement's text, source line and file and
\* the message of its final error, in both engines.
C25_OneEntryPerFailure ==
    \A k \in 1..Len(seg.calls) :
        seg.calls[k].err # "nil" =>
            Cardinality({n \in 1..Len(RunErrors) :
                EntryFor(RunErrors[n], seg.calls[k].unit, seg.calls[k].err)})
                = 1

\* The first line of unit j that counts.
FirstLine(j) == CHOOSE i \in Kept :
                    i >= UnitStart(j) /\ \A k \in Kept : k >= UnitStart(j) => i <= k

\* C27: a task's LineNum is the number of the line on which the unit's text
\* starts, also for a unit of several lines.
C27_LineNumIsStartLine ==
    (engine = "core" /\ Segmented /\ seg.err = "nil")
        => \A j \in Units : seg.tasks[j].LineNum = FirstLine(j)

\* C28: a task's LineNum is the number of the line on which the unit ends,
\* comment lines and blank lines counted: the line with the ";", the "/"
\* line of a block, or the last line scanned for a last statement without a
\* terminator; the unit's text is what the lines from the end of the
\* previous unit up to that line hold.
C28_LineNumIsEndLine ==
    (engine = "core" /\ Segmented /\ seg.err = "nil")
        => \A j \in Units :
             LET t == seg.tasks[j]
                 e == t.LineNum
                 text == TrimSpace(Accumulated(UnitStart(j), e))
             IN /\ e \in UnitStart(j)..Len(Lines)
                /\ \/ /\ t.Type = "plsql"
                      /\ Lines[e] = <<"/">>
                      /\ t.SQL = normalizeSQL(TrimSuffix(text, <<"/">>), "plsql")
                   \/ /\ ~t.Block
                      /\ HasSuffix(Lines[e], <<";">>)
                      /\ t.SQL = TrimSpace(TrimSuffix(text, <<";">>))
                   \/ /\ j = Len(seg.tasks)
                      /\ e = Len(Lines)
                      /\ t.SQL = text

\* A statement of two lines after a comment line has been given the number
\* of its second line, the third of the file.
C28_Witness ==
    /\ engine = "core"
    /\ file = <<"-", "-", "x", "\n", "select", "\n", "x", ";">>
    /\ Segmented
    /\ Len(seg.tasks) = 1
    /\ seg.tasks[1].LineNum = 3
    /\ seg.tasks[1].SQL = <<"select", "\n", "x">>

\* The lines of the file as they are written, and those of unit j up to
\* line e, joined by line breaks.
RawLines == ScanLines(file)
SourceText(j, e) ==
    LET idx == SelectSeq([k \in 1..(e - UnitStart(j) + 1) |->
                               UnitStart(j) + k - 1],
                         LAMBDA i : i \in Kept)
    IN Join([k \in 1..Len(idx) |-> RawLines[idx[k]]], "\n")

\* C29: the text of a procedural block is the block's source lines, as
\* written and with their line breaks, up to the closing "/".
C29_BlockTextVerbatim ==
    (engine = "core" /\ Segmented /\ seg.err = "nil")
        => \A j \in Units :
             seg.tasks[j].Type = "plsql" =>
                 seg.tasks[j].SQL = SourceText(j, seg.tasks[j].LineNum - 1)

\* make(chan struct{}, e.config.MaxConcurrent) at the head of
\* executeParallel: a negative capacity panics, and the call never gets to
\* its loop.
MakeSem(newCall) ==
    IF config.MaxConcurrent < 0 THEN [newCall EXCEPT !.pc = "panic"]
                                ELSE newCall

\* C34: under fair scheduling every call of executeParallel returns, for
\* every task list and every MaxConcurrent that Load lets through.
C34_EventuallyReturns == <>(\A c \in Calls : call[c].pc = "returned")

\* C35: in every result handed to a caller the failure count is the number
\* of entries of the error list, the result ExecuteFile returns when parsing
\* fails included.
C35_FailedIsErrorCount ==
    seg.pc = "returned" =>
        IF engine = "core"
        THEN seg.result.Failed = Len(seg.result.Errors)
        ELSE seg.execResult.FailureCount = Len(seg.execResult.Errors)

\* The callers of Acquire that have raised p.active and not lowered it
\* again: workers between p.active++ and the end of Release, and
\* enableDBMSOutput likewise.
HoldsSlot(w) == worker[w].pc \in {"conn", "exec", "sleep", "release"}
SlotsHeld ==
    Cardinality({w \in Workers : HoldsSlot(w)})
    + IF main.pc \in {"enable_conn", "enable_exec"} THEN 1 ELSE 0

\* C37: an Acquire that returned an error has left p.active as it was, and
\* a successful one has raised it by one: the count is the number of callers
\* whose Acquire got past the capacity test and who have not released.
C37_ErrorLeavesActive == pool.active = SlotsHeld

\* A worker's Acquire has failed in db.Conn while another worker holds a
\* connection: the count is one, the holder's.
C37_Witness ==
    /\ pool.active = 1
    /\ \E w, v \in Workers :
         /\ worker[w].pc = "error"
         /\ worker[w].err = "conn"
         /\ worker[v].pc = "exec"

\* C39: no comment text and no comment marker gets into a statement
\* NextStatement emits: in a file without string literals, where every "-"
\* belongs to a "--" line comment, no statement holds a "-".
C39_NoCommentInStatement ==
    (engine = "exec" /\ Quotes(file) = 0)
        => \A j \in Units : ~Contains(UnitText(j), <<"-">>)

\* ------------------------------------------------------------ utils: Metrics

\* Goroutines that call AddQuery on one Metrics, and calls they make in all.
NumAdders == 2
MaxAdds == 3
Adders == 1..NumAdders

\* The durations passed to AddQuery, in nanoseconds.
Durations == {1, 2}

\* NewMetrics: all counters zero.
NewMetrics ==
    [QueryCount |-> 0, SuccessCount |-> 0, FailureCount |-> 0,
     TotalDuration |-> 0]

\* A goroutine outside AddQuery.  done, ok and total record the calls it has
\* completed: how many, how many with success = true, and their durations'
\* sum.
IdleAdder ==
    [pc |-> "idle", duration |-> 0, success |-> FALSE, done |-> 0, ok |-> 0,
     total |-> 0]

\* The sum of f over the goroutines 1..n.
RECURSIVE SumOf(_, _)
SumOf(f, n) == IF n = 0 THEN 0 ELSE f[n] + SumOf(f, n - 1)

\* The AddQuery calls made so far, completed or not.
Issued ==
    SumOf([g \in Adders |->
              adder[g].done + IF adder[g].pc = "idle" THEN 0 ELSE 1],
          NumAdders)

\* A goroutine calls m.AddQuery(duration, success).
AddQueryCall(g) ==
    /\ adder[g].pc = "idle"
    /\ Issued < MaxAdds
    /\ \E d \in Durations, s \in BOOLEAN :
         adder' = [adder EXCEPT ![g].pc = "count",
                                ![g].duration = d,
                                ![g].success = s]
    /\ UNCHANGED <<engine, retry, parseVars, coreVars, execVars, meter,
                   crypt, run, split,
                   progress>>

\* atomic.AddInt64(&m.QueryCount, 1).
AddQueryCount(g) ==
    /\ adder[g].pc = "count"
    /\ meter' = [meter EXCEPT !.QueryCount = @ + 1]
    /\ adder' = [adder EXCEPT ![g].pc = "duration"]
    /\ UNCHANGED <<engine, retry, parseVars, coreVars, execVars, crypt,
                   run, split,
                   progress>>

\* atomic.AddInt64(&m.TotalDuration, int64(duration)).
AddQueryDuration(g) ==
    /\ adder[g].pc = "duration"
    /\ meter' = [meter EXCEPT !.TotalDuration = @ + adder[g].duration]
    /\ adder' = [adder EXCEPT ![g].pc = "outcome"]
    /\ UNCHANGED <<engine, retry, parseVars, coreVars, execVars, crypt,
                   run, split,
                   progress>>

\* An AddQuery that takes every call for a success.
CountsAsSuccess(success) == TRUE

\* if success { SuccessCount } else { FailureCount }.
IsSuccess(success) == success

\* atomic.AddInt64 on SuccessCount or FailureCount, and the return.
AddQueryOutcome(g) ==
    /\ adder[g].pc = "outcome"
    /\ meter' = IF IsSuccess(adder[g].success)
                THEN [meter EXCEPT !.SuccessCount = @ + 1]
                ELSE [meter EXCEPT !.FailureCount = @ + 1]
    /\ adder' = [adder EXCEPT
                    ![g].pc = "idle",
                    ![g].done = @ + 1,
                    ![g].ok = IF adder[g].success THEN @ + 1 ELSE @,
                    ![g].total = @ + adder[g].duration]
    /\ UNCHANGED <<engine, retry, parseVars, coreVars, execVars, crypt,
                   run, split,
                   progress>>

\* C31: when every AddQuery call issued has completed, QueryCount is the
\* number of calls, SuccessCount and FailureCount the numbers made with
\* success true and false, and TotalDuration the sum of the durations,
\* whatever the interleaving of the goroutines.
C31_NoLostUpdate ==
    (\A g \in Adders : adder[g].pc = "idle") =>
        LET calls == SumOf([g \in Adders |-> adder[g].done], NumAdders)
            oks == SumOf([g \in Adders |-> adder[g].ok], NumAdders)
            sum == SumOf([g \in Adders |-> adder[g].total], NumAdders)
        IN /\ meter.QueryCount = calls
           /\ meter.SuccessCount = oks
           /\ meter.FailureCount = calls - oks
           /\ meter.QueryCount = meter.SuccessCount + meter.FailureCount
           /\ meter.TotalDuration = sum

\* Two goroutines have completed three calls between them, with both
\* outcomes and both durations among them.
C31_Witness ==
    /\ \A g \in Adders : adder[g].pc = "idle" /\ adder[g].done >= 1
    /\ meter.QueryCount = 3
    /\ meter.SuccessCount = 2
    /\ meter.FailureCount = 1
    /\ meter.TotalDuration = 4

\* ------------------------------------------------------------- utils: crypto

\* A byte, scaled to three bits; strings and byte slices are sequences of
\* bytes.
Byte == 0..7

\* Longest password, in bytes.
MaxPlain == 3

\* The passwords, the empty one included.
Passwords == UNION {[1..n -> Byte] : n \in 0..MaxPlain}

\* aes.BlockSize and nonceLen, scaled to one byte, and the largest decoded
\* length IsEncrypted accepts (2048 in the source).
BlockSize == 1
nonceLen == 1
maxEncryptedLen == 4

\* The base64 alphabet, scaled to four digits of two bits, and the padding
\* character: the bytes that stand for 'A'..'D' and '='.
Alphabet == <<1, 2, 3, 4>>
Pad == 5

\* The digit a character of the alphabet stands for, -1 for any other byte.
Digit(c) == IF c \in 1..4 THEN c - 1 ELSE -1

\* base64.StdEncoding.EncodeToString: two bytes (six bits) make three
\* digits; a last single byte makes two digits and one padding character.
RECURSIVE EncodeToString(_)
EncodeToString(src) ==
    IF src = <<>> THEN <<>>
    ELSE IF Len(src) = 1
    THEN <<Alphabet[(src[1] \div 2) + 1],
           Alphabet[((src[1] % 2) * 2) + 1],
           Pad>>
    ELSE <<Alphabet[(src[1] \div 2) + 1],
           Alphabet[((src[1] % 2) * 2 + (src[2] \div 4)) + 1],
           Alphabet[(src[2] % 4) + 1]>>
         \o EncodeToString(SubSeq(src, 3, Len(src)))

\* base64.StdEncoding.DecodeString: the input must be whole groups of three
\* characters of the alphabet; only the last group may end in padding, and
\* the bits its second digit has left over are ignored.
RECURSIVE DecodeString(_)
DecodeString(s) ==
    IF s = <<>> THEN [ok |-> TRUE, bytes |-> <<>>]
    ELSE IF Len(s) < 3 \/ Digit(s[1]) = -1 \/ Digit(s[2]) = -1
    THEN [ok |-> FALSE, bytes |-> <<>>]
    ELSE LET x == Digit(s[1]) * 2 + (Digit(s[2]) \div 2)
         IN IF s[3] = Pad
            THEN [ok |-> Len(s) = 3, bytes |-> IF Len(s) = 3 THEN <<x>>
                                                ELSE <<>>]
            ELSE IF Digit(s[3]) = -1
            THEN [ok |-> FALSE, bytes |-> <<>>]
            ELSE LET y == (Digit(s[2]) % 2) * 4 + Digit(s[3])
                     rest == DecodeString(SubSeq(s, 4, Len(s)))
                 IN [ok |-> rest.ok,
                     bytes |-> IF rest.ok THEN <<x, y>> \o rest.bytes
                               ELSE <<>>]

\* Exclusive or of two bytes.
XorBit(x, y) == (x + y) % 2
Xor(a, b) ==
    4 * XorBit(a \div 4, b \div 4)
    + 2 * XorBit((a \div 2) % 2, (b \div 2) % 2)
    + XorBit(a % 2, b % 2)

\* The block cipher of aes.NewCipher(key) on one block: a permutation of
\* the blocks for every key.
aesEncrypt(key, block) == (3 * block + key) % 8

\* const encryptionKey, and the keys loadOrGenerateKey can load.
encryptionKey == 5
Keys == {2, 7}

\* cipher.NewCFBEncrypter(block, iv).XORKeyStream: each byte is the
\* plaintext byte xor the cipher of the previous ciphertext block, the iv
\* for the first.
RECURSIVE CFBEncrypt(_, _, _)
CFBEncrypt(key, prev, plaintext) ==
    IF plaintext = <<>> THEN <<>>
    ELSE LET c == Xor(Head(plaintext), aesEncrypt(key, prev))
         IN <<c>> \o CFBEncrypt(key, c, Tail(plaintext))

\* A decrypter whose key stream never takes the ciphertext back in.
RECURSIVE CFBDecryptNoFeedback(_, _, _)
CFBDecryptNoFeedback(key, prev, ciphertext) ==
    IF ciphertext = <<>> THEN <<>>
    ELSE <<Xor(Head(ciphertext), aesEncrypt(key, prev))>>
         \o CFBDecryptNoFeedback(key, prev, Tail(ciphertext))

\* cipher.NewCFBDecrypter(block, iv).XORKeyStream.
RECURSIVE CFBDecrypt(_, _, _)
CFBDecrypt(key, prev, ciphertext) ==
    IF ciphertext = <<>> THEN <<>>
    ELSE <<Xor(Head(ciphertext), aesEncrypt(key, prev))>>
         \o CFBDecrypt(key, Head(ciphertext), Tail(ciphertext))

\* EncryptPassword past the empty test, for the iv read from rand.Reader.
EncryptPassword(password, iv) ==
    EncodeToString(<<iv>> \o CFBEncrypt(encryptionKey, iv, password))

\* DecryptPassword.
DecryptPassword(encrypted) ==
    LET decoded == DecodeString(encrypted)
    IN IF encrypted = <<>> THEN [text |-> <<>>, err |-> "empty"]
       ELSE IF ~decoded.ok THEN [text |-> <<>>, err |-> "base64"]
       ELSE IF Len(decoded.bytes) < BlockSize
       THEN [text |-> <<>>, err |-> "short"]
       ELSE [text |-> CFBDecrypt(encryptionKey, decoded.bytes[1],
                                 Tail(decoded.bytes)),
             err |-> "nil"]

\* IsEncrypted, steps 1 to 6.
IsEncrypted(password) ==
    LET decoded == DecodeString(password)
    IN IF Len(password) < BlockSize THEN FALSE
       ELSE IF ~decoded.ok THEN FALSE
       ELSE IF Len(decoded.bytes) < BlockSize THEN FALSE
       ELSE IF Len(decoded.bytes) <= BlockSize THEN FALSE
       ELSE Len(decoded.bytes) <= maxEncryptedLen

\* The counter-mode key stream of GCM and its authentication tag, one byte.
RECURSIVE gcmStream(_, _, _)
gcmStream(key, counter, text) ==
    IF text = <<>> THEN <<>>
    ELSE <<Xor(Head(text), aesEncrypt(key, counter))>>
         \o gcmStream(key, (counter + 1) % 8, Tail(text))
RECURSIVE gcmTag(_, _, _)
gcmTag(key, nonce, ciphertext) ==
    IF ciphertext = <<>> THEN aesEncrypt(key, nonce)
    ELSE aesEncrypt(key, Xor(Head(ciphertext),
                             gcmTag(key, nonce, Tail(ciphertext))))

\* aesgcm.Seal(nil, nonce, plaintext, nil) and aesgcm.Open.
Seal(key, nonce, plaintext) ==
    LET c == gcmStream(key, (nonce + 1) % 8, plaintext)
    IN c \o <<gcmTag(key, nonce, c)>>
Open(key, nonce, data) ==
    LET c == SubSeq(data, 1, Len(data) - 1)
    IN IF data = <<>> \/ data[Len(data)] # gcmTag(key, nonce, c)
       THEN [text |-> <<>>, err |-> "auth"]
       ELSE [text |-> gcmStream(key, (nonce + 1) % 8, c), err |-> "nil"]

\* Crypto.Encrypt for the nonce read, and Crypto.Decrypt.
Encrypt(key, plaintext, nonce) ==
    EncodeToString(<<nonce>> \o Seal(key, nonce, plaintext))
Decrypt(key, encrypted) ==
    LET decoded == DecodeString(encrypted)
    IN IF ~decoded.ok THEN [text |-> <<>>, err |-> "base64"]
       ELSE IF Len(decoded.bytes) < nonceLen
       THEN [text |-> <<>>, err |-> "invalid"]
       ELSE Open(key, decoded.bytes[1], Tail(decoded.bytes))

\* A password before anything is called on it.  plain and out hold what
\* IsEncrypted answered for the password and for the encryption's output:
\* "true", "false", or "none" before the call.
Answer(b) == IF b THEN "true" ELSE "false"
NoResult == [text |-> <<>>, err |-> "none"]
NewCrypt(scheme, key, password) ==
    [pc |-> "new", scheme |-> scheme, key |-> key, password |-> password,
     encrypted |-> <<>>, decrypted |-> NoResult, plain |-> "none",
     out |-> "none"]

\* EncryptPassword(password): the empty password and a failed read of
\* rand.Reader return an error.
EncryptPasswordCall ==
    /\ crypt.pc = "new"
    /\ crypt.scheme = "utils"
    /\ \/ /\ crypt.password # <<>>
          /\ \E iv \in Byte :
               crypt' = [crypt EXCEPT
                           !.pc = "encrypted",
                           !.encrypted = EncryptPassword(crypt.password, iv)]
       \/ crypt' = [crypt EXCEPT !.pc = "failed"]
    /\ UNCHANGED <<engine, retry, parseVars, coreVars, execVars, meter,
                   adder, run, split,
                   progress>>

\* DecryptPassword on the output of EncryptPassword.
DecryptPasswordCall ==
    /\ crypt.pc = "encrypted"
    /\ crypt.scheme = "utils"
    /\ crypt' = [crypt EXCEPT !.pc = "decrypted",
                              !.decrypted = DecryptPassword(crypt.encrypted)]
    /\ UNCHANGED <<engine, retry, parseVars, coreVars, execVars, meter,
                   adder, run, split,
                   progress>>

\* IsEncrypted on the password, and on the output of EncryptPassword.
IsEncryptedCall ==
    /\ crypt.scheme = "utils"
    /\ \/ /\ crypt.plain = "none"
          /\ crypt' = [crypt EXCEPT !.plain = Answer(IsEncrypted(crypt.password))]
       \/ /\ crypt.pc = "encrypted"
          /\ crypt.out = "none"
          /\ crypt' = [crypt EXCEPT !.out = Answer(IsEncrypted(crypt.encrypted))]
    /\ UNCHANGED <<engine, retry, parseVars, coreVars, execVars, meter,
                   adder, run, split,
                   progress>>

\* c.Encrypt(plaintext): a failed read of rand.Reader returns an error.
CryptoEncrypt ==
    /\ crypt.pc = "new"
    /\ crypt.scheme = "config"
    /\ \/ \E nonce \in Byte :
            crypt' = [crypt EXCEPT
                        !.pc = "encrypted",
                        !.encrypted = Encrypt(crypt.key, crypt.password,
                                              nonce)]
       \/ crypt' = [crypt EXCEPT !.pc = "failed"]
    /\ UNCHANGED <<engine, retry, parseVars, coreVars, execVars, meter,
                   adder, run, split,
                   progress>>

\* c.Decrypt on the output of c.Encrypt.
CryptoDecrypt ==
    /\ crypt.pc = "encrypted"
    /\ crypt.scheme = "config"
    /\ crypt' = [crypt EXCEPT !.pc = "decrypted",
                              !.decrypted = Decrypt(crypt.key,
                                                    crypt.encrypted)]
    /\ UNCHANGED <<engine, retry, parseVars, coreVars, execVars, meter,
                   adder, run, split,
                   progress>>

\* C32: decrypting the output of an encryption gives the plaintext back,
\* without an error, for every non-empty plaintext and every iv or nonce,
\* with EncryptPassword / DecryptPassword and with Crypto.Encrypt / Decrypt.
C32_RoundTrip ==
    (crypt.pc = "decrypted" /\ crypt.password # <<>>) =>
        /\ crypt.decrypted.err = "nil"
        /\ crypt.decrypted.text = crypt.password

\* A password of three bytes has gone through EncryptPassword and
\* DecryptPassword, and its encryption is not the password itself.
C32_Witness ==
    /\ crypt.pc = "decrypted"
    /\ crypt.scheme = "utils"
    /\ Len(crypt.password) = 3
    /\ crypt.encrypted # crypt.password
    /\ DecodeString(crypt.encrypted).bytes # <<>>
    /\ Tail(DecodeString(crypt.encrypted).bytes) # crypt.password

\* C33: IsEncrypted answers false for every password that was not
\* encrypted and true for every output of EncryptPassword.
C33_IsEncrypted ==
    /\ crypt.plain \in {"none", "false"}
    /\ crypt.out \in {"none", "true"}

\* --------------------------- exec: ExecuteFile over the parts of a split file

\* Largest number of part files SplitSQLFile hands to ExecuteFile.
MaxParts == 2

\* A channel created by NewSQLExecutor: open and empty.
NewChan == [closed |-> FALSE, len |-> 0]

\* ExecuteFile before its first executeOneFile, for a file of the given
\* number of parts.  sent counts the statements the reader has read from the
\* current part, queued those waiting in the statements channel; panic is
\* the runtime panic that ended the process, if any.
NewRun(parts) ==
    [pc |-> "start", part |-> 1, parts |-> parts,
     results |-> NewChan, errors |-> NewChan,
     reader |-> "none", sent |-> 0, queued |-> 0, stClosed |-> FALSE,
     workers |-> [w \in Workers |-> "none"], panic |-> "none"]

\* executeOneFile up to e.wg.Wait(): a fresh statements channel, the
\* workers and the reader goroutine started.
FileStart ==
    /\ run.panic = "none"
    /\ run.pc = "start"
    /\ run' = [run EXCEPT
                 !.pc = "wait",
                 !.reader = "read", !.sent = 0, !.queued = 0,
                 !.stClosed = FALSE,
                 !.workers = [w \in Workers |->
                                 IF w <= execConfig.ParallelDegree
                                 THEN "recv" ELSE "none"]]
    /\ UNCHANGED <<engine, retry, parseVars, coreVars, execVars, meter,
                   adder, crypt, split,
                   progress>>

\* The reader goroutine: statements <- stmt.
FileReaderSend ==
    /\ run.panic = "none"
    /\ run.reader = "read"
    /\ run.sent < MaxStmts
    /\ run.queued < execConfig.BatchSize
    /\ run' = [run EXCEPT !.sent = @ + 1, !.queued = @ + 1]
    /\ UNCHANGED <<engine, retry, parseVars, coreVars, execVars, meter,
                   adder, crypt, split,
                   progress>>

\* The reader goroutine: io.EOF, break, the deferred close(statements).
FileReaderEOF ==
    /\ run.panic = "none"
    /\ run.reader = "read"
    /\ run' = [run EXCEPT !.reader = "done", !.stClosed = TRUE]
    /\ UNCHANGED <<engine, retry, parseVars, coreVars, execVars, meter,
                   adder, crypt, split,
                   progress>>

\* A send on channel ch: it panics on a closed channel and otherwise needs
\* room in the buffer, of capacity ParallelDegree.
SendPanics(ch) == ch.closed
SendProceeds(ch) == ~ch.closed /\ ch.len < execConfig.ParallelDegree

\* The reader goroutine: NextStatement returned another error;
\* e.errors <- err, return, the deferred close(statements).
FileReaderError ==
    /\ run.panic = "none"
    /\ run.reader = "read"
    /\ \/ /\ SendPanics(run.errors)
          /\ run' = [run EXCEPT !.reader = "panic", !.panic = "send"]
       \/ /\ SendProceeds(run.errors)
          /\ run' = [run EXCEPT !.reader = "done", !.stClosed = TRUE,
                                !.errors.len = @ + 1]
    /\ UNCHANGED <<engine, retry, parseVars, coreVars, execVars, meter,
                   adder, crypt, split,
                   progress>>

\* worker: the next statement of the channel, and e.pool.Acquire for it;
\* after a successful Acquire the statement is executed and the connection
\* released.
FileWorkerRecv(w) ==
    /\ run.panic = "none"
    /\ run.workers[w] = "recv"
    /\ run.queued > 0
    /\ \E acquired \in BOOLEAN :
         run' = [run EXCEPT !.queued = @ - 1,
                            !.workers[w] = IF acquired THEN "recv"
                                           ELSE "error"]
    /\ UNCHANGED <<engine, retry, parseVars, coreVars, execVars, meter,
                   adder, crypt, split,
                   progress>>

\* worker, Acquire failed: e.errors <- err; return.
FileWorkerError(w) ==
    /\ run.panic = "none"
    /\ run.workers[w] = "error"
    /\ \/ /\ SendPanics(run.errors)
          /\ run' = [run EXCEPT !.workers[w] = "panic", !.panic = "send"]
       \/ /\ SendProceeds(run.errors)
          /\ run' = [run EXCEPT !.workers[w] = "done", !.errors.len = @ + 1]
    /\ UNCHANGED <<engine, retry, parseVars, coreVars, execVars, meter,
                   adder, crypt, split,
                   progress>>

\* worker, the statements channel closed and drained: e.results <- result;
\* return.
FileWorkerResult(w) ==
    /\ run.panic = "none"
    /\ run.workers[w] = "recv"
    /\ run.queued = 0
    /\ run.stClosed
    /\ \/ /\ SendPanics(run.results)
          /\ run' = [run EXCEPT !.workers[w] = "panic", !.panic = "send"]
       \/ /\ SendProceeds(run.results)
          /\ run' = [run EXCEPT !.workers[w] = "done", !.results.len = @ + 1]
    /\ UNCHANGED <<engine, retry, parseVars, coreVars, execVars, meter,
                   adder, crypt, split,
                   progress>>

\* executeOneFile from e.wg.Wait() on: close(e.results), close(e.errors),
\* both channels drained; with an error ExecuteFile returns it, otherwise
\* it goes on to the next part, or returns after the last.
FileWait ==
    /\ run.panic = "none"
    /\ run.pc = "wait"
    /\ \A w \in Workers : run.workers[w] \in {"none", "done"}
    /\ IF run.results.closed
       THEN run' = [run EXCEPT !.pc = "panic", !.panic = "close"]
       ELSE run' = [run EXCEPT
                      !.results = [closed |-> TRUE, len |-> 0],
                      !.errors = [closed |-> TRUE, len |-> 0],
                      !.pc = IF run.errors.len > 0 \/ run.part = run.parts
                             THEN "returned" ELSE "start",
                      !.part = IF run.errors.len > 0 \/ run.part = run.parts
                               THEN @ ELSE @ + 1]
    /\ UNCHANGED <<engine, retry, parseVars, coreVars, execVars, meter,
                   adder, crypt, split,
                   progress>>

\* C36: in ExecuteFile no goroutine sends on a closed channel, for a file
\* of one part or of several.
C36_NoSendOnClosed == run.panic # "send"

\* ------------------------------------------------------ utils: SplitSQLFile

\* Largest execConfig.MaxFileSize, in bytes.
MaxFileSize == 3

\* The bytes a character of the model's texts stands for.
Width(char) ==
    CASE char = "select" -> 6
      [] char = "BEGIN" -> 5
      [] OTHER -> 1

\* len(s) in bytes.
RECURSIVE ByteLen(_)
ByteLen(s) == IF s = <<>> THEN 0 ELSE Width(Head(s)) + ByteLen(Tail(s))

\* strings.Split(s, ";"): the pieces between the semicolons, at least one.
RECURSIVE SplitSemicolon(_, _)
SplitSemicolon(s, piece) ==
    IF s = <<>> THEN <<piece>>
    ELSE IF Head(s) = ";" THEN <<piece>> \o SplitSemicolon(Tail(s), <<>>)
    ELSE SplitSemicolon(Tail(s), Append(piece, Head(s)))

\* SplitSQLFile's loop over the pieces: files are the parts written so far,
\* currentFile the builder.
RECURSIVE WriteParts(_, _, _, _)
WriteParts(pieces, maxSize, files, currentFile) ==
    IF pieces = <<>>
    THEN IF ByteLen(currentFile) > 0 THEN Append(files, currentFile)
         ELSE files
    ELSE LET piece == TrimSpace(Head(pieces))
             full == ByteLen(currentFile) > maxSize
         IN IF piece = <<>>
            THEN WriteParts(Tail(pieces), maxSize, files, currentFile)
            ELSE WriteParts(Tail(pieces), maxSize,
                            IF full THEN Append(files, currentFile)
                            ELSE files,
                            (IF full THEN <<>> ELSE currentFile)
                                \o piece \o <<";", "\n">>)

\* SplitSQLFile: the contents of the files it returns, the file itself
\* without a limit or within it.
SplitSQLFile(content, maxSize) ==
    IF maxSize <= 0 THEN <<content>>
    ELSE IF ByteLen(content) <= maxSize THEN <<content>>
    ELSE WriteParts(SplitSemicolon(content, <<>>), maxSize, <<>>, <<>>)

\* The statements executeOneFile's reader sends for a file: NextStatement
\* until io.EOF, each statement trimmed and the empty ones dropped.
RECURSIVE ReadAll(_, _)
ReadAll(content, p) ==
    LET r == NextStatement(content, p)
    IN IF r.err # "nil" THEN <<>>
       ELSE (IF TrimSpace(r.stmt) # <<>> THEN <<TrimSpace(r.stmt)>>
             ELSE <<>>) \o ReadAll(content, r.parser)

\* ExecuteFile before SplitSQLFile, for the limit maxSize.
NewSplit(maxSize) ==
    [pc |-> "start", maxSize |-> maxSize, files |-> <<>>, next |-> 1,
     stmts |-> <<>>]

\* ExecuteFile's call of utils.SplitSQLFile.
SplitSQLFileCall ==
    /\ split.pc = "start"
    /\ split' = [split EXCEPT !.pc = "run",
                              !.files = SplitSQLFile(file, split.maxSize)]
    /\ UNCHANGED <<engine, retry, parseVars, coreVars, execVars, meter,
                   adder, crypt, run,
                   progress>>

\* ExecuteFile's loop, one executeOneFile: a new parser on the next file,
\* and its statements.
SplitExecuteOneFile ==
    /\ split.pc = "run"
    /\ split.next <= Len(split.files)
    /\ split' = [split EXCEPT
                   !.stmts = @ \o ReadAll(split.files[split.next],
                                          NewSQLParser),
                   !.next = @ + 1]
    /\ UNCHANGED <<engine, retry, parseVars, coreVars, execVars, meter,
                   adder, crypt, run,
                   progress>>

\* ExecuteFile's return after the last file.
SplitReturn ==
    /\ split.pc = "run"
    /\ split.next > Len(split.files)
    /\ split' = [split EXCEPT !.pc = "returned"]
    /\ UNCHANGED <<engine, retry, parseVars, coreVars, execVars, meter,
                   adder, crypt, run,
                   progress>>

\* C38: for a file larger than maxSize, the statements read from the parts
\* SplitSQLFile wrote, in order, are the statements read from the file.
C38_SplitKeepsStatements ==
    (split.pc = "returned" /\ split.maxSize > 0
        /\ ByteLen(file) > split.maxSize)
    => split.stmts = ReadAll(file, NewSQLParser)

\* --------------------------------------------------------- utils: Progress

\* The goroutines that share a Progress, and the calls they make in all.
NumCallers == 2
MaxProgressCalls == 3
Callers == 1..NumCallers

\* A goroutine outside every method of Progress.
IdleCaller == [pc |-> "idle", op |-> "none", current |-> 0]

\* NewProgress: the mutex unlocked, current zero.  issued counts the calls
\* begun.
NewProgress ==
    [mu |-> "unlocked", current |-> 0, issued |-> 0,
     callers |-> [g \in Callers |-> IdleCaller]]

\* Goroutine g calls Increment, SetCurrent(current) or Finish.
ProgressCall(g) ==
    /\ progress.callers[g].pc = "idle"
    /\ progress.issued < MaxProgressCalls
    /\ \E op \in {"Increment", "SetCurrent", "Finish"} :
       \E current \in 0..1 :
         progress' = [progress EXCEPT
                        !.issued = @ + 1,
                        !.callers[g] =
                            [pc |-> "lock", op |-> op,
                             current |-> IF op = "SetCurrent" THEN current
                                         ELSE 0]]
    /\ UNCHANGED <<engine, retry, parseVars, coreVars, execVars, meter,
                   adder, crypt, run, split>>

\* The p.mu.Lock() every method starts with: it waits for the unlocked
\* mutex and locks it.
ProgressLock(g) ==
    /\ progress.callers[g].pc = "lock"
    /\ progress.mu = "unlocked"
    /\ progress' = [progress EXCEPT !.mu = "locked",
                                    !.callers[g].pc = "body"]
    /\ UNCHANGED <<engine, retry, parseVars, coreVars, execVars, meter,
                   adder, crypt, run, split>>

\* Increment after its Lock: p.current++, p.bar.Add(1), and the deferred
\* p.mu.Lock(), which waits for the mutex this call still holds.
IncrementBody(g) ==
    /\ progress.callers[g].pc = "body"
    /\ progress.callers[g].op = "Increment"
    /\ progress' = [progress EXCEPT !.current = @ + 1,
                                    !.callers[g].pc = "deferred"]
    /\ UNCHANGED <<engine, retry, parseVars, coreVars, execVars, meter,
                   adder, crypt, run, split>>

\* SetCurrent after its Lock: p.current = current, p.bar.Set, and the
\* deferred p.mu.Unlock().
SetCurrentBody(g) ==
    /\ progress.callers[g].pc = "body"
    /\ progress.callers[g].op = "SetCurrent"
    /\ progress' = [progress EXCEPT !.current = progress.callers[g].current,
                                    !.mu = "unlocked",
                                    !.callers[g] = IdleCaller]
    /\ UNCHANGED <<engine, retry, parseVars, coreVars, execVars, meter,
                   adder, crypt, run, split>>

\* Finish after its Lock: the bar finished, the line printed, and the
\* deferred p.mu.Unlock().
FinishBody(g) ==
    /\ progress.callers[g].pc = "body"
    /\ progress.callers[g].op = "Finish"
    /\ progress' = [progress EXCEPT !.mu = "unlocked",
                                    !.callers[g] = IdleCaller]
    /\ UNCHANGED <<engine, retry, parseVars, coreVars, execVars, meter,
                   adder, crypt, run, split>>

\* C40: every call to Progress.Increment returns with the mutex unlocked:
\* no goroutine is left waiting in Increment behind a mutex that nobody
\* will unlock.
C40_IncrementReturns ==
    \A g \in Callers : progress.callers[g].pc # "deferred"

\* ------------------------------------------------------------------- Spec

\* Nothing runs in the utilities.
IdleUtil ==
    /\ meter = NewMetrics
    /\ adder = [g \in Adders |-> IdleAdder]
    /\ crypt = NewCrypt("utils", encryptionKey, <<>>)
    /\ run = NewRun(1)
    /\ split = NewSplit(0)
    /\ progress = NewProgress

IdleCore ==
    /\ config = Load(0, 0)
    /\ call = [c \in Calls |-> NewCall(0)]
    /\ task = [c \in Calls |-> [t \in TaskIds |-> NoTask]]
    /\ metrics = [QueryCount |-> 0, SuccessCount |-> 0, FailureCount |-> 0]

IdleExec ==
    /\ execConfig = [ParallelDegree |-> 1, maxConns |-> 1, BatchSize |-> 1,
                     MaxRetries |-> 0]
    /\ pool = NewConnectionPool
    /\ ctxDone = FALSE
    /\ statements = [buf |-> <<>>, closed |-> FALSE, next |-> 1, total |-> 0]
    /\ worker = [w \in Workers |-> IdleWorker]
    /\ stmt = [s \in StmtIds |-> NewStmt]
    /\ results = <<>>
    /\ errors = <<>>
    /\ main = [pc |-> "new", file |-> EmptyResult, total |-> EmptyResult,
               err |-> "nil"]

IdleParse ==
    /\ file = <<>>
    /\ seg = NewSeg
    /\ retry = NewRetry
    /\ IdleUtil

InitCore ==
    /\ engine = "core"
    /\ \E r \in RawRetries, m \in RawConcurrent : config = Load(r, m)
    /\ \E f \in TaskCounts : call = [c \in Calls |-> NewCall(f[c])]
    /\ task = [c \in Calls |-> [t \in TaskIds |-> NoTask]]
    /\ metrics = [QueryCount |-> 0, SuccessCount |-> 0, FailureCount |-> 0]
    /\ IdleExec
    /\ IdleParse

InitExec ==
    /\ engine = "exec"
    /\ IdleCore
    /\ IdleParse
    /\ execConfig \in ExecConfigs
    /\ pool = NewConnectionPool
    /\ ctxDone = FALSE
    /\ \E n \in 1..MaxStmts :
         statements = [buf |-> <<>>, closed |-> FALSE, next |-> 1,
                       total |-> n]
    /\ worker = [w \in Workers |-> IdleWorker]
    /\ stmt = [s \in StmtIds |-> NewStmt]
    /\ results = <<>>
    /\ errors = <<>>
    /\ main = [pc |-> "new", file |-> EmptyResult, total |-> EmptyResult,
               err |-> "nil"]

NextCore ==
    \/ \E c \in Calls : Dispatch(c)
    \/ \E c \in Calls : Return(c)
    \/ \E c \in Calls, t \in TaskIds : Sleep(c, t)
    \/ \E c \in Calls, t \in TaskIds : Attempt(c, t)
    \/ \E c \in Calls, t \in TaskIds : LockMu(c, t)
    \/ \E c \in Calls, t \in TaskIds : Record(c, t)
    \/ \E c \in Calls, t \in TaskIds : ReleaseSem(c, t)
    \/ \E c \in Calls, t \in TaskIds : WgDone(c, t)

NextExec ==
    \/ NewSQLExecutor
    \/ EnableAcquire
    \/ EnableConn
    \/ EnableExec
    \/ ReaderSend
    \/ ReaderClose
    \/ CtxExpire
    \/ Finish
    \/ \E w \in Workers : Recv(w)
    \/ \E w \in Workers : RecvClosed(w)
    \/ \E w \in Workers : Acquire(w)
    \/ \E w \in Workers : AcquireTimeout(w)
    \/ \E w \in Workers : AcquireCancelled(w)
    \/ \E w \in Workers : Conn(w)
    \/ \E w \in Workers : WorkerError(w)
    \/ \E w \in Workers : ExecAttempt(w)
    \/ \E w \in Workers : ExecSleep(w)
    \/ \E w \in Workers : Release(w)
    \/ \E w \in Workers : SendResult(w)

\* One behaviour runs one engine.
Init == InitCore \/ InitExec
Next == NextCore \/ NextExec
Spec == Init /\ [][Next]_vars

\* A file segmented and run, by either engine's segmenter.
InitParse ==
    /\ engine \in {"core", "exec"}
    /\ file \in Files
    /\ seg = NewSeg
    /\ retry = NewRetry
    /\ IdleUtil
    /\ IdleCore
    /\ IdleExec

NextParse ==
    \/ ExecuteFileParse
    \/ ExecuteFileTask
    \/ ExecuteFileReturn
    \/ ReadStatement
    \/ ReadEOF
    \/ ReadError
    \/ ExecuteStatement
    \/ ExecuteOneFileReturn

SpecParse == InitParse /\ [][NextParse]_vars

\* The core engine alone, and the executor package's engine alone.
SpecCore == InitCore /\ [][NextCore]_vars
SpecExec == InitExec /\ [][NextExec]_vars

\* One statement in the retry loop of either engine, under every MaxRetries
\* the configuration can hold.
InitRetry ==
    /\ engine \in {"core", "exec"}
    /\ \E r \in RawRetries :
         config = IF engine = "core" THEN Load(r, 0) ELSE Load(0, 0)
    /\ call = [c \in Calls |-> NewCall(0)]
    /\ task = [c \in Calls |-> [t \in TaskIds |-> NoTask]]
    /\ metrics = [QueryCount |-> 0, SuccessCount |-> 0, FailureCount |-> 0]
    /\ \E m \in 0..MaxExecRetries :
         execConfig = [ParallelDegree |-> 1, maxConns |-> 1, BatchSize |-> 1,
                       MaxRetries |-> IF engine = "exec" THEN m ELSE 0]
    /\ pool = NewConnectionPool
    /\ ctxDone = FALSE
    /\ statements = [buf |-> <<>>, closed |-> FALSE, next |-> 1, total |-> 0]
    /\ worker = [w \in Workers |-> IdleWorker]
    /\ stmt = [s \in StmtIds |-> NewStmt]
    /\ results = <<>>
    /\ errors = <<>>
    /\ main = [pc |-> "new", file |-> EmptyResult, total |-> EmptyResult,
               err |-> "nil"]
    /\ IdleParse

NextRetry ==
    \/ TaskCall
    \/ TaskSleep
    \/ TaskAttempt
    \/ StatementCall
    \/ StatementAttempt
    \/ StatementSleep

SpecRetry == InitRetry /\ [][NextRetry]_vars

\* Goroutines calling AddQuery on one Metrics.
InitMetrics ==
    /\ engine = "core"
    /\ IdleCore
    /\ IdleExec
    /\ IdleParse

NextMetrics ==
    \E g \in Adders :
        \/ AddQueryCall(g)
        \/ AddQueryCount(g)
        \/ AddQueryDuration(g)
        \/ AddQueryOutcome(g)

SpecMetrics == InitMetrics /\ [][NextMetrics]_vars

\* A password encrypted, decrypted and tested, with the package-level
\* functions of utils or with a Crypto of the config package.
InitCrypto ==
    /\ engine = "core"
    /\ IdleCore
    /\ IdleExec
    /\ file = <<>>
    /\ seg = NewSeg
    /\ retry = NewRetry
    /\ meter = NewMetrics
    /\ adder = [g \in Adders |-> IdleAdder]
    /\ run = NewRun(1)
    /\ split = NewSplit(0)
    /\ progress = NewProgress
    /\ \E password \in Passwords :
         \/ crypt = NewCrypt("utils", encryptionKey, password)
         \/ \E key \in Keys : crypt = NewCrypt("config", key, password)

NextCrypto ==
    \/ EncryptPasswordCall
    \/ DecryptPasswordCall
    \/ IsEncryptedCall
    \/ CryptoEncrypt
    \/ CryptoDecrypt

SpecCrypto == InitCrypto /\ [][NextCrypto]_vars

\* The core engine under fair scheduling, with every max_concurrent value
\* of the configuration file that Load accepts, negative ones included.
InitLive ==
    /\ engine = "core"
    /\ \E r \in RawRetries, m \in RawConcurrent \cup {-1} :
         config = Load(r, m)
    /\ \E f \in TaskCounts : call = [c \in Calls |-> MakeSem(NewCall(f[c]))]
    /\ task = [c \in Calls |-> [t \in TaskIds |-> NoTask]]
    /\ metrics = [QueryCount |-> 0, SuccessCount |-> 0, FailureCount |-> 0]
    /\ IdleExec
    /\ IdleParse

SpecLive == InitLive /\ [][NextCore]_vars /\ WF_vars(NextCore)

\* SQLExecutor.ExecuteFile on a file of one part or more, with the channels
\* NewSQLExecutor made.
InitFiles ==
    /\ engine = "exec"
    /\ IdleCore
    /\ \E d \in 1..MaxDegree :
         execConfig = [ParallelDegree |-> d, maxConns |-> d,
                       BatchSize |-> MaxStmts, MaxRetries |-> 0]
    /\ pool = NewConnectionPool
    /\ ctxDone = FALSE
    /\ statements = [buf |-> <<>>, closed |-> FALSE, next |-> 1, total |-> 0]
    /\ worker = [w \in Workers |-> IdleWorker]
    /\ stmt = [s \in StmtIds |-> NewStmt]
    /\ results = <<>>
    /\ errors = <<>>
    /\ main = [pc |-> "new", file |-> EmptyResult, total |-> EmptyResult,
               err |-> "nil"]
    /\ file = <<>>
    /\ seg = NewSeg
    /\ retry = NewRetry
    /\ meter = NewMetrics
    /\ adder = [g \in Adders |-> IdleAdder]
    /\ crypt = NewCrypt("utils", encryptionKey, <<>>)
    /\ \E parts \in 1..MaxParts : run = NewRun(parts)
    /\ split = NewSplit(0)
    /\ progress = NewProgress

NextFiles ==
    \/ FileStart
    \/ FileReaderSend
    \/ FileReaderEOF
    \/ FileReaderError
    \/ \E w \in Workers :
          \/ FileWorkerRecv(w)
          \/ FileWorkerError(w)
          \/ FileWorkerResult(w)
    \/ FileWait

SpecFiles == InitFiles /\ [][NextFiles]_vars

\* SQLExecutor.ExecuteFile on a file and a size limit, up to the statements
\* its readers produce.
InitSplit ==
    /\ engine = "exec"
    /\ IdleCore
    /\ IdleExec
    /\ file \in Files
    /\ seg = NewSeg
    /\ retry = NewRetry
    /\ meter = NewMetrics
    /\ adder = [g \in Adders |-> IdleAdder]
    /\ crypt = NewCrypt("utils", encryptionKey, <<>>)
    /\ run = NewRun(1)
    /\ \E maxSize \in 0..MaxFileSize : split = NewSplit(maxSize)
    /\ progress = NewProgress

NextSplit ==
    \/ SplitSQLFileCall
    \/ SplitExecuteOneFile
    \/ SplitReturn

SpecSplit == InitSplit /\ [][NextSplit]_vars

\* Goroutines calling the methods of one Progress.
InitProgress ==
    /\ engine = "core"
    /\ IdleParse
    /\ IdleCore
    /\ IdleExec

NextProgress ==
    \E g \in Callers :
        \/ ProgressCall(g)
        \/ ProgressLock(g)
        \/ IncrementBody(g)
        \/ SetCurrentBody(g)
        \/ FinishBody(g)

SpecProgress == InitProgress /\ [][NextProgress]_vars

====
